---------------------------- MODULE Spec2Model ----------------------------
(***************************************************************************)
(* Model of the AI-feedback ingestion code of the resume analyser:         *)
(*   app/lib/json-validator.ts  validateFeedbackStructure, repairJSON,     *)
(*                              createFallbackFeedback, parseAIFeedback    *)
(*   the review page (Resume)   loadResume and the state it sets           *)
(*   app/lib/puter.ts (store)  safeApiCall, the fs/ai/kv operations, init  *)
(*                              and checkAuthStatus                        *)
(*   the rasterizer             loadPdfJs, convertPdfToImage               *)
(*                                                                         *)
(* A text is a sequence of one-character strings, so that trimming, the    *)
(* regular expressions and JSON.parse act on characters as the code does.  *)
(* A JavaScript value is a record [t |-> tag, v |-> payload]:              *)
(*   "undefined", "null"  payload <<>>                                     *)
(*   "bool"               payload TRUE / FALSE                             *)
(*   "num"                payload <<m, s>>, the number m / 10^s            *)
(*   "str"                payload the text                                 *)
(*   "arr"                payload the sequence of element values           *)
(*   "obj"                payload the sequence of <<key text, value>>      *)
(***************************************************************************)
EXTENDS Integers, Sequences, FiniteSets, TLC

VARIABLES
    input,          \* how rawText was composed (ghost: names the case)
    rawText,        \* parseAIFeedback's argument
    pc,             \* position inside parseAIFeedback / the validator run
    processedText,  \* line 164: the text after trim and fence removal
    jsonMatch,      \* line 185: <<matched text>> or <<>> for null
    attempts,       \* the stages attempted so far, with the gate's verdict
    result,         \* the returned object, once pc = "done"
    obj,            \* the value handed to validateFeedbackStructure
    outcome,        \* what validateFeedbackStructure did with obj
    message,        \* the argument of createFallbackFeedback
    kv,             \* the key-value store: key -> what kv.get resolves to
    records,        \* line 46: what JSON.parse makes of each stored text
    id,             \* Resume: the route parameter (useParams), "" when absent
    mounted,        \* Resume: "rendering", "mounted" or "unmounted"
    imageUrl,       \* Resume: useState('')
    resumeUrl,      \* Resume: useState('')
    feedback,       \* Resume: useState(null)
    loading,        \* Resume: useState(true)
    error,          \* Resume: useState(null): <<>> for null, else <<reason>>
    loads,          \* the invocations of loadResume, each with its position
    files,          \* the file store: the paths that hold a blob
    store,          \* usePuterStore: isLoading, error, puterReady, auth
    puter,          \* whether window.puter is there
    intervals,      \* init: the polling timers, each with its checks
    requests,       \* the calls that went through safeApiCall
    pdfjsLib,       \* the engine instance, 0 for null
    isLoading,      \* loadPdfJs: line 206
    loadPromise,    \* the import loadPdfJs memoizes, 0 for null
    imports,        \* the engine loads started, each with its state
    calls           \* the invocations of convertPdfToImage

\* the state of the review page
pageVars == <<kv, records, id, mounted, imageUrl, resumeUrl, feedback, loading, error, loads, files>>

\* the state of the store behind usePuterStore
storeVars == <<store, puter, intervals, requests>>

\* the state of the rasterizer
rasterVars == <<pdfjsLib, isLoading, loadPromise, imports, calls>>

vars == <<input, rawText, pc, processedText, jsonMatch, attempts, result,
          obj, outcome, message, pageVars, storeVars, rasterVars>>

-----------------------------------------------------------------------------
(* Texts the code names. *)

K_overallScore == <<"o","v","e","r","a","l","l","S","c","o","r","e">>
K_ATS == <<"A","T","S">>
K_toneAndStyle == <<"t","o","n","e","A","n","d","S","t","y","l","e">>
K_content == <<"c","o","n","t","e","n","t">>
K_structure == <<"s","t","r","u","c","t","u","r","e">>
K_skills == <<"s","k","i","l","l","s">>
K_score == <<"s","c","o","r","e">>
K_tips == <<"t","i","p","s">>
K_type == <<"t","y","p","e">>
K_tip == <<"t","i","p">>
K_explanation == <<"e","x","p","l","a","n","a","t","i","o","n">>
T_good == <<"g","o","o","d">>
T_improve == <<"i","m","p","r","o","v","e">>

\* line 55
sections == <<K_ATS, K_toneAndStyle, K_content, K_structure, K_skills>>

-----------------------------------------------------------------------------
(* JavaScript values. *)

Undefined == [t |-> "undefined", v |-> <<>>]
Null == [t |-> "null", v |-> <<>>]
Bool(b) == [t |-> "bool", v |-> b]
Num(m, s) == [t |-> "num", v |-> <<m, s>>]
IntNum(n) == Num(n, 0)
Str(s) == [t |-> "str", v |-> s]
Arr(items) == [t |-> "arr", v |-> items]
Obj(members) == [t |-> "obj", v |-> members]

\* typeof x
TypeOf(x) ==
    CASE x.t = "undefined" -> "undefined"
      [] x.t = "bool" -> "boolean"
      [] x.t = "num" -> "number"
      [] x.t = "str" -> "string"
      [] OTHER -> "object"          \* null, arrays and objects

\* !x
Falsy(x) ==
    \/ x.t \in {"undefined", "null"}
    \/ x.t = "bool" /\ x.v = FALSE
    \/ x.t = "num" /\ x.v[1] = 0
    \/ x.t = "str" /\ x.v = <<>>

\* x.k throws a TypeError exactly when x is null or undefined
HasProps(x) == x.t \notin {"undefined", "null"}

\* x[k] for a property name k that is no array index: the member of an
\* object (the last one of that name, as JSON.parse keeps it), else undefined
RECURSIVE Lookup(_, _, _)
Lookup(members, k, i) ==
    IF i = 0 THEN Undefined
    ELSE IF members[i][1] = k THEN members[i][2]
    ELSE Lookup(members, k, i - 1)

Get(x, k) == IF x.t = "obj" THEN Lookup(x.v, k, Len(x.v)) ELSE Undefined

\* Array.isArray(x)
IsArray(x) == x.t = "arr"

-----------------------------------------------------------------------------
(* validateFeedbackStructure, lines 49-76.  The result is "true" or        *)
(* "false", or "throw" where the code would read a property of null or     *)
(* undefined.                                                              *)

\* the loop over the tips without the ATS exemption of line 69
RECURSIVE TipsWithoutExemption(_, _, _)
TipsWithoutExemption(section, tips, i) ==
    IF i > Len(tips) THEN "true"
    ELSE LET tip == tips[i] IN
         IF Falsy(tip) \/ TypeOf(tip) # "object" THEN "false"
         ELSE IF ~HasProps(tip) THEN "throw"
         ELSE IF Get(tip, K_type) \notin {Str(T_good), Str(T_improve)} THEN "false"
         ELSE IF TypeOf(Get(tip, K_tip)) # "string" THEN "false"
         ELSE IF TypeOf(Get(tip, K_explanation)) # "string" THEN "false"
         ELSE TipsWithoutExemption(section, tips, i + 1)

\* lines 63-72: the loop over one section's tips, from element i
RECURSIVE ValidateTips(_, _, _)
ValidateTips(section, tips, i) ==
    IF i > Len(tips) THEN "true"
    ELSE LET tip == tips[i] IN
         IF Falsy(tip) \/ TypeOf(tip) # "object" THEN "false"
         ELSE IF ~HasProps(tip) THEN "throw"
         ELSE IF Get(tip, K_type) \notin {Str(T_good), Str(T_improve)} THEN "false"
         ELSE IF TypeOf(Get(tip, K_tip)) # "string" THEN "false"
         ELSE IF section # K_ATS /\ TypeOf(Get(tip, K_explanation)) # "string"
              THEN "false"
         ELSE ValidateTips(section, tips, i + 1)

\* the loop over the sections without the score test of line 59
RECURSIVE SectionsWithoutScoreTest(_, _)
SectionsWithoutScoreTest(o, i) ==
    IF i > Len(sections) THEN "true"
    ELSE LET section == sections[i]
             sec == Get(o, section)
         IN  IF Falsy(sec) \/ TypeOf(sec) # "object" THEN "false"
             ELSE IF ~HasProps(sec) THEN "throw"
             ELSE IF ~IsArray(Get(sec, K_tips)) THEN "false"
             ELSE LET r == ValidateTips(section, Get(sec, K_tips).v, 1)
                  IN  IF r # "true" THEN r ELSE SectionsWithoutScoreTest(o, i + 1)

\* lines 57-73: the loop over the sections, from section i
RECURSIVE ValidateSections(_, _)
ValidateSections(o, i) ==
    IF i > Len(sections) THEN "true"
    ELSE LET section == sections[i]
             sec == Get(o, section)
         IN  IF Falsy(sec) \/ TypeOf(sec) # "object" THEN "false"
             ELSE IF ~HasProps(sec) THEN "throw"
             ELSE IF TypeOf(Get(sec, K_score)) # "number" THEN "false"
             ELSE IF ~IsArray(Get(sec, K_tips)) THEN "false"
             ELSE LET r == ValidateTips(section, Get(sec, K_tips).v, 1)
                  IN  IF r # "true" THEN r ELSE ValidateSections(o, i + 1)

\* validateFeedbackStructure without the !obj test of line 50
validateWithoutNullTest(o) ==
    IF TypeOf(o) # "object" THEN "false"
    ELSE IF ~HasProps(o) THEN "throw"
    ELSE IF TypeOf(Get(o, K_overallScore)) # "number" THEN "false"
    ELSE ValidateSections(o, 1)

validateFeedbackStructure(o) ==
    IF Falsy(o) \/ TypeOf(o) # "object" THEN "false"
    ELSE IF ~HasProps(o) THEN "throw"
    ELSE IF TypeOf(Get(o, K_overallScore)) # "number" THEN "false"
    ELSE ValidateSections(o, 1)

-----------------------------------------------------------------------------
(* Texts: String.prototype.trim / startsWith and the character classes of  *)
(* the regular expressions.                                                *)

\* \s, and what trim() removes (of the characters the inputs are made of)
WhiteSpace == {" ", "\t", "\n", "\r", "\f"}

\* the white space JSON.parse skips between tokens
JsonWhiteSpace == {" ", "\t", "\n", "\r"}

\* the characters JSON.parse refuses unescaped inside a string
ControlChars == {"\t", "\n", "\r", "\f"}

DigitChars == <<"0","1","2","3","4","5","6","7","8","9">>
IsDigit(c) == \E d \in 1..10 : DigitChars[d] = c
DigitVal(c) == (CHOOSE d \in 1..10 : DigitChars[d] = c) - 1

\* the first index >= i of s that holds no character of class ws
RECURSIVE SkipFwd(_, _, _)
SkipFwd(s, i, ws) ==
    IF i <= Len(s) /\ s[i] \in ws THEN SkipFwd(s, i + 1, ws) ELSE i

\* the last index <= j of s that holds no character of class ws
RECURSIVE SkipBack(_, _, _)
SkipBack(s, j, ws) ==
    IF j >= 1 /\ s[j] \in ws THEN SkipBack(s, j - 1, ws) ELSE j

\* trim forgotten
trimNothing(s) == s

\* s.trim()
trim(s) == SubSeq(s, SkipFwd(s, 1, WhiteSpace), SkipBack(s, Len(s), WhiteSpace))

\* s.startsWith(p), and whether p stands at index i of s
At(s, i, p) == i >= 1 /\ i + Len(p) - 1 <= Len(s) /\ SubSeq(s, i, i + Len(p) - 1) = p
startsWith(s, p) == At(s, 1, p)
endsWith(s, p) == At(s, Len(s) - Len(p) + 1, p)

Min(S) == CHOOSE x \in S : \A y \in S : x <= y
Max(S) == CHOOSE x \in S : \A y \in S : x >= y

\* s.indexOf(c) and s.lastIndexOf(c), 1-based; 0 when c does not occur
indexOf(s, c) ==
    LET at == {i \in 1..Len(s) : s[i] = c} IN IF at = {} THEN 0 ELSE Min(at)
lastIndexOf(s, c) ==
    LET at == {i \in 1..Len(s) : s[i] = c} IN IF at = {} THEN 0 ELSE Max(at)

\* the first index >= i of s that holds c; 0 when there is none
RECURSIVE IndexFrom(_, _, _)
IndexFrom(s, c, i) ==
    IF i > Len(s) THEN 0 ELSE IF s[i] = c THEN i ELSE IndexFrom(s, c, i + 1)

\* the last index in lo..j of s that holds c; 0 when there is none
RECURSIVE LastIndexIn(_, _, _, _)
LastIndexIn(s, c, lo, j) ==
    IF j < lo THEN 0 ELSE IF s[j] = c THEN j ELSE LastIndexIn(s, c, lo, j - 1)

-----------------------------------------------------------------------------
(* JSON.parse (ECMA-404), by recursive descent.  A parse step returns      *)
(* [ok, val, pos]: whether it succeeded, the value, and the index after    *)
(* it.  \u escapes are outside the alphabet of the inputs and are refused. *)

Fail == [ok |-> FALSE, val |-> Undefined, pos |-> 0]
Got(val, pos) == [ok |-> TRUE, val |-> val, pos |-> pos]

\* obj[k] = v on the object being built: a repeated name keeps its place
\* and takes the later value
Put(members, k, v) ==
    IF \E i \in 1..Len(members) : members[i][1] = k
    THEN [i \in 1..Len(members) |->
             IF members[i][1] = k THEN <<k, v>> ELSE members[i]]
    ELSE Append(members, <<k, v>>)

\* the character an escape \c denotes, <<>> when \c is no escape
\* the escape letter taken for the character
UnescapeNothing(c) == <<c>>

Unescape(c) ==
    CASE c = "\"" -> <<"\"">>
      [] c = "\\" -> <<"\\">>
      [] c = "/" -> <<"/">>
      [] c = "n" -> <<"\n">>
      [] c = "t" -> <<"\t">>
      [] c = "r" -> <<"\r">>
      [] c = "f" -> <<"\f">>
      [] OTHER -> <<>>

\* the rest of a string whose opening quote stands before index i
RECURSIVE ParseString(_, _, _)
ParseString(s, i, acc) ==
    LET stops == {k \in i..Len(s) : s[k] \in {"\"", "\\"} \cup ControlChars}
    IN  IF stops = {} THEN Fail
        ELSE LET j == Min(stops)
                 plain == acc \o SubSeq(s, i, j - 1)
             IN  IF s[j] = "\"" THEN Got(Str(plain), j + 1)
                 ELSE IF s[j] = "\\"
                      THEN IF j + 1 > Len(s) \/ Unescape(s[j + 1]) = <<>> THEN Fail
                           ELSE ParseString(s, j + 2, plain \o Unescape(s[j + 1]))
                 ELSE Fail

\* a run of digits from index i: [n |-> its value, len |-> its length]
RECURSIVE ParseDigits(_, _, _, _)
ParseDigits(s, i, n, len) ==
    IF i <= Len(s) /\ IsDigit(s[i])
    THEN ParseDigits(s, i + 1, 10 * n + DigitVal(s[i]), len + 1)
    ELSE [n |-> n, len |-> len]

RECURSIVE Pow10(_)
Pow10(e) == IF e <= 0 THEN 1 ELSE 10 * Pow10(e - 1)

\* m / 10^s in lowest terms of 10
RECURSIVE Normal(_, _)
Normal(m, s) ==
    IF m = 0 THEN Num(0, 0)
    ELSE IF s > 0 /\ m % 10 = 0 THEN Normal(m \div 10, s - 1)
    ELSE Num(m, s)

\* number = [-] int [frac] [exp].  Each step below is handed what the
\* steps before it have read: the sign, the digits so far as an integer m,
\* and the count of them that stand after the point.

\* the digits of the exponent, read from index j
NumberExponent(s, j, sign, m, scale, expNeg, exp) ==
    IF exp.len = 0 THEN Fail
    ELSE IF expNeg \/ exp.n < scale
         THEN Got(Normal(sign * m, scale + (IF expNeg THEN exp.n ELSE -exp.n)),
                  j + exp.len)
         ELSE Got(Num(sign * m * Pow10(exp.n - scale), 0), j + exp.len)

\* what follows the fraction, at index j
NumberTail(s, j, sign, m, scale) ==
    IF j <= Len(s) /\ s[j] \in {"e", "E"}
    THEN IF j + 1 <= Len(s) /\ s[j + 1] \in {"+", "-"}
         THEN NumberExponent(s, j + 2, sign, m, scale, s[j + 1] = "-",
                             ParseDigits(s, j + 2, 0, 0))
         ELSE NumberExponent(s, j + 1, sign, m, scale, FALSE,
                             ParseDigits(s, j + 1, 0, 0))
    ELSE Got(Normal(sign * m, scale), j)

\* the digits after the point, read from index j
NumberFraction(s, j, sign, m, frac) ==
    IF frac.len = 0 THEN Fail
    ELSE NumberTail(s, j + frac.len, sign, m * Pow10(frac.len) + frac.n, frac.len)

\* the integer part, read from index i: no leading zeros
NumberInteger(s, i, sign, int) ==
    IF int.len = 0 \/ (int.len > 1 /\ s[i] = "0") THEN Fail
    ELSE IF i + int.len <= Len(s) /\ s[i + int.len] = "."
         THEN NumberFraction(s, i + int.len + 1, sign, int.n,
                             ParseDigits(s, i + int.len + 1, 0, 0))
         ELSE NumberTail(s, i + int.len, sign, int.n, 0)

ParseNumber(s, i) ==
    IF s[i] = "-" THEN NumberInteger(s, i + 1, -1, ParseDigits(s, i + 1, 0, 0))
    ELSE NumberInteger(s, i, 1, ParseDigits(s, i, 0, 0))

L_true == <<"t","r","u","e">>
L_false == <<"f","a","l","s","e">>
L_null == <<"n","u","l","l">>

RECURSIVE ParseValue(_, _)
RECURSIVE ParseMembers(_, _, _)
RECURSIVE ParseElements(_, _, _)

\* after a member: n stands at "}" or at the "," before the next member
MemberEnd(s, n, members) ==
    IF n > Len(s) THEN Fail
    ELSE IF s[n] = "}" THEN Got(Obj(members), n + 1)
    ELSE IF s[n] = ","
         THEN ParseMembers(s, SkipFwd(s, n + 1, JsonWhiteSpace), members)
    ELSE Fail

\* the value val of the member named key
MemberValue(s, acc, key, val) ==
    IF ~val.ok THEN Fail
    ELSE MemberEnd(s, SkipFwd(s, val.pos, JsonWhiteSpace), Put(acc, key, val.val))

\* the colon, expected at index c, and the value after it
MemberColon(s, acc, key, c) ==
    IF c > Len(s) \/ s[c] # ":" THEN Fail
    ELSE MemberValue(s, acc, key, ParseValue(s, c + 1))

\* the name k of a member
MemberName(s, acc, k) ==
    IF ~k.ok THEN Fail
    ELSE MemberColon(s, acc, k.val.v, SkipFwd(s, k.pos, JsonWhiteSpace))

\* member {, member} "}" : i stands at the first character of a member
ParseMembers(s, i, acc) ==
    IF i > Len(s) \/ s[i] # "\"" THEN Fail
    ELSE MemberName(s, acc, ParseString(s, i + 1, <<>>))

\* after an element: n stands at "]" or at the "," before the next element
ElementEnd(s, n, elements) ==
    IF n > Len(s) THEN Fail
    ELSE IF s[n] = "]" THEN Got(Arr(elements), n + 1)
    ELSE IF s[n] = "," THEN ParseElements(s, n + 1, elements)
    ELSE Fail

ElementValue(s, acc, val) ==
    IF ~val.ok THEN Fail
    ELSE ElementEnd(s, SkipFwd(s, val.pos, JsonWhiteSpace), Append(acc, val.val))

\* element {, element} "]" : i stands at or before the first character of
\* an element
ParseElements(s, i, acc) == ElementValue(s, acc, ParseValue(s, i))

\* the value that begins at index i, which holds no white space
ValueAt(s, i) ==
    IF i > Len(s) THEN Fail
    ELSE IF s[i] = "{" THEN ParseMembers(s, SkipFwd(s, i + 1, JsonWhiteSpace), <<>>)
    ELSE IF s[i] = "[" THEN ParseElements(s, i + 1, <<>>)
    ELSE IF s[i] = "\"" THEN ParseString(s, i + 1, <<>>)
    ELSE IF s[i] = "-" \/ IsDigit(s[i]) THEN ParseNumber(s, i)
    ELSE IF At(s, i, L_true) THEN Got(Bool(TRUE), i + 4)
    ELSE IF At(s, i, L_false) THEN Got(Bool(FALSE), i + 5)
    ELSE IF At(s, i, L_null) THEN Got(Null, i + 4)
    ELSE Fail

\* an empty object or array: the closing character at index j
EmptyAt(s, i, j) ==
    /\ i <= Len(s) /\ j <= Len(s)
    /\ \/ s[i] = "{" /\ s[j] = "}"
       \/ s[i] = "[" /\ s[j] = "]"

ValueFrom(s, i, j) ==
    IF EmptyAt(s, i, j)
    THEN Got(IF s[i] = "{" THEN Obj(<<>>) ELSE Arr(<<>>), j + 1)
    ELSE ValueAt(s, i)

\* value, with the white space before it
ParseValueFrom(s, i) == ValueFrom(s, i, SkipFwd(s, i + 1, JsonWhiteSpace))
ParseValue(s, i0) == ParseValueFrom(s, SkipFwd(s, i0, JsonWhiteSpace))

\* the end of the text must follow the value r
ParseEnd(s, r) ==
    IF r.ok /\ SkipFwd(s, r.pos, JsonWhiteSpace) = Len(s) + 1
    THEN [ok |-> TRUE, val |-> r.val]
    ELSE [ok |-> FALSE, val |-> Undefined]

\* JSON.parse(s): [ok |-> FALSE] where it throws a SyntaxError
JSONParse(s) == ParseEnd(s, ParseValue(s, 1))

-----------------------------------------------------------------------------
(* JSON.stringify, which writes the texts the parser is given: compact,    *)
(* or indented by two spaces as JSON.stringify(v, null, 2) does.  A style  *)
(* [pretty, comma] also says at which nesting depth of objects the writer  *)
(* leaves a trailing comma after the last member (-1: nowhere), the slip   *)
(* of an AI response that repairJSON is there for.                         *)

RECURSIVE DigitsOf(_)
DigitsOf(n) ==
    IF n < 10 THEN <<DigitChars[n + 1]>>
    ELSE Append(DigitsOf(n \div 10), DigitChars[(n % 10) + 1])

RECURSIVE Repeat(_, _)
Repeat(c, n) == IF n <= 0 THEN <<>> ELSE <<c>> \o Repeat(c, n - 1)

\* the decimal text of m / 10^s
NumText(m, s) ==
    LET a == IF m < 0 THEN -m ELSE m
        whole == DigitsOf(a \div Pow10(s))
        part == DigitsOf(a % Pow10(s))
    IN  (IF m < 0 THEN <<"-">> ELSE <<>>) \o whole \o
        (IF s = 0 THEN <<>> ELSE <<".">> \o Repeat("0", s - Len(part)) \o part)

RECURSIVE Quoted(_, _)
Quoted(s, i) ==
    LET stops == {k \in i..Len(s) : s[k] \in {"\"", "\\"} \cup ControlChars}
    IN  IF stops = {} THEN SubSeq(s, i, Len(s)) \o <<"\"">>
        ELSE LET j == Min(stops)
             IN  SubSeq(s, i, j - 1) \o
                 (CASE s[j] = "\"" -> <<"\\", "\"">>
                    [] s[j] = "\\" -> <<"\\", "\\">>
                    [] s[j] = "\n" -> <<"\\", "n">>
                    [] s[j] = "\t" -> <<"\\", "t">>
                    [] s[j] = "\r" -> <<"\\", "r">>
                    [] s[j] = "\f" -> <<"\\", "f">>) \o Quoted(s, j + 1)

QuoteText(s) == <<"\"">> \o Quoted(s, 1)

Break(style, depth) ==
    IF style.pretty THEN <<"\n">> \o Repeat(" ", 2 * depth) ELSE <<>>

RECURSIVE Stringify(_, _, _)
RECURSIVE StringifyItems(_, _, _, _, _)

\* the members or elements from index i on, separated by commas
StringifyItems(items, isObj, i, style, depth) ==
    LET item == IF isObj
                THEN QuoteText(items[i][1]) \o
                     (IF style.pretty THEN <<":", " ">> ELSE <<":">>) \o
                     Stringify(items[i][2], style, depth)
                ELSE Stringify(items[i], style, depth)
    IN  Break(style, depth) \o item \o
        (IF i < Len(items)
         THEN <<",">> \o StringifyItems(items, isObj, i + 1, style, depth)
         ELSE IF isObj /\ style.comma = depth - 1 THEN <<",">> ELSE <<>>)

Stringify(val, style, depth) ==
    CASE val.t = "null" -> L_null
      [] val.t = "bool" -> IF val.v THEN L_true ELSE L_false
      [] val.t = "num" -> NumText(val.v[1], val.v[2])
      [] val.t = "str" -> QuoteText(val.v)
      [] val.t = "arr" ->
            IF val.v = <<>> THEN <<"[", "]">>
            ELSE <<"[">> \o StringifyItems(val.v, FALSE, 1, style, depth + 1)
                 \o Break(style, depth) \o <<"]">>
      [] val.t = "obj" ->
            IF val.v = <<>> THEN <<"{", "}">>
            ELSE <<"{">> \o StringifyItems(val.v, TRUE, 1, style, depth + 1)
                 \o Break(style, depth) \o <<"}">>

Compact == [pretty |-> FALSE, comma |-> -1]
Pretty == [pretty |-> TRUE, comma |-> -1]
JSONStringify(val) == Stringify(val, Compact, 0)

-----------------------------------------------------------------------------
(* The regular expressions of repairJSON, lines 97-107.  A match at index  *)
(* i of s is [len, rep]: the length of the matched text (0: no match at i) *)
(* and the text that replaces it.                                          *)

NoMatch == [len |-> 0, rep |-> <<>>]

\* the lazy group of line 99 from index k: the index after the shortest run of
\* non-quote characters that is followed by white space and "," or "}";
\* 0 when a quote or the end of the text comes first
RECURSIVE LazyEnd(_, _)
LazyEnd(s, k) ==
    LET n == SkipFwd(s, k, WhiteSpace) IN
    IF n <= Len(s) /\ s[n] \in {",", "}"} THEN k
    ELSE IF k > Len(s) \/ s[k] = "\"" THEN 0
    ELSE LazyEnd(s, k + 1)

\* line 99: colon, white space, quote, lazy non-quotes; a closing quote is
\* put after them
UnterminatedString(s, i) ==
    IF s[i] # ":" THEN NoMatch
    ELSE LET q == SkipFwd(s, i + 1, WhiteSpace) IN
         IF q > Len(s) \/ s[q] # "\"" THEN NoMatch
         ELSE LET k == LazyEnd(s, q + 1) IN
              IF k = 0 THEN NoMatch
              ELSE [len |-> k - i,
                    rep |-> <<":", " ", "\"">> \o SubSeq(s, q + 1, k - 1) \o <<"\"">>]

\* line 101: closing brace, white space, a quoted key and its colon; a comma
\* is put after the brace
MissingCommaBeforeKey(s, i) ==
    IF s[i] # "}" THEN NoMatch
    ELSE LET q == SkipFwd(s, i + 1, WhiteSpace) IN
         IF q > Len(s) \/ s[q] # "\"" THEN NoMatch
         ELSE LET e == IndexFrom(s, "\"", q + 1) IN
              IF e = 0 \/ e = q + 1 \/ e + 1 > Len(s) \/ s[e + 1] # ":" THEN NoMatch
              ELSE [len |-> SkipFwd(s, e + 2, WhiteSpace) - i,
                    rep |-> <<"}", ",", " ", "\"">> \o SubSeq(s, q + 1, e - 1)
                            \o <<"\"", ":", " ">>]

\* line 103: closing brace, white space, opening brace; a comma is put
\* between them
MissingCommaBetweenObjects(s, i) ==
    IF s[i] # "}" THEN NoMatch
    ELSE LET q == SkipFwd(s, i + 1, WhiteSpace) IN
         IF q > Len(s) \/ s[q] # "{" THEN NoMatch
         ELSE [len |-> q + 1 - i, rep |-> <<"}", ",", " ", "{">>]

\* line 105: a comma before white space and a closing brace or bracket;
\* the comma is dropped
TrailingComma(s, i) ==
    IF s[i] # "," THEN NoMatch
    ELSE LET q == SkipFwd(s, i + 1, WhiteSpace) IN
         IF q > Len(s) \/ s[q] \notin {"}", "]"} THEN NoMatch
         ELSE [len |-> q + 1 - i, rep |-> SubSeq(s, i + 1, q)]

\* line 107: quote, non-quotes, newline, non-quotes, quote; the first group
\* is greedy, so it is the last newline before the next quote that is
\* replaced by a backslash and an n
NewlineInString(s, i) ==
    IF s[i] # "\"" THEN NoMatch
    ELSE LET e == IndexFrom(s, "\"", i + 1)
             n == IF e = 0 THEN 0 ELSE LastIndexIn(s, "\n", i + 1, e - 1)
         IN  IF e = 0 \/ n = 0 THEN NoMatch
             ELSE [len |-> e + 1 - i,
                   rep |-> <<"\"">> \o SubSeq(s, i + 1, n - 1) \o <<"\\", "n">>
                           \o SubSeq(s, n + 1, e - 1) \o <<"\"">>]

MatchAt(rx, s, i) ==
    CASE rx = 1 -> UnterminatedString(s, i)
      [] rx = 2 -> MissingCommaBeforeKey(s, i)
      [] rx = 3 -> MissingCommaBetweenObjects(s, i)
      [] rx = 4 -> TrailingComma(s, i)
      [] rx = 5 -> NewlineInString(s, i)

\* s.replace with the global flag: every match, left to right, the search
\* going on after the matched text.  starts holds the indices of s at which
\* the expression matches; i is where the search goes on.
RECURSIVE ReplaceFrom(_, _, _, _)
ReplaceFrom(rx, s, starts, i) ==
    LET left == {j \in starts : j >= i} IN
    IF left = {} THEN SubSeq(s, i, Len(s))
    ELSE LET j == Min(left)
             m == MatchAt(rx, s, j)
         IN  SubSeq(s, i, j - 1) \o m.rep \o ReplaceFrom(rx, s, starts, j + m.len)

ReplaceAll(rx, s) ==
    ReplaceFrom(rx, s, {j \in 1..Len(s) : MatchAt(rx, s, j).len > 0}, 1)

\* lines 81-110
repairJSON(jsonString) ==
    LET trimmed == trim(jsonString)
        firstBrace == indexOf(trimmed, "{")
        fromBrace == IF firstBrace > 1
                     THEN SubSeq(trimmed, firstBrace, Len(trimmed)) ELSE trimmed
        lastBrace == lastIndexOf(fromBrace, "}")
        toBrace == IF lastBrace >= 1 /\ lastBrace < Len(fromBrace)
                   THEN SubSeq(fromBrace, 1, lastBrace) ELSE fromBrace
    IN  ReplaceAll(5, ReplaceAll(4, ReplaceAll(3, ReplaceAll(2,
            ReplaceAll(1, toBrace)))))

-----------------------------------------------------------------------------
(* createFallbackFeedback, lines 115-150. *)

M_ManualReview == <<"M","a","n","u","a","l"," ","r","e","v","i","e","w"," ","n","e","e","d","e","d">>
M_UploadFailed == <<"U","p","l","o","a","d"," ","f","a","i","l","e","d"," ","-"," ","p","l","e","a","s","e"," ","t","r","y"," ","a","g","a","i","n">>
M_PleaseRetry ==
    <<"."," ","P","l","e","a","s","e"," ","t","r","y"," ","u","p","l","o","a","d","i","n","g"," ","y","o","u","r"," ","r","e","s","u","m","e"," ","a","g","a","i","n"," ","o","r"," ","c","o","n","t","a","c","t"," ","s","u","p","p","o","r","t"," ","i","f"," ","t","h","e"," ","i","s","s","u","e"," ","p","e","r","s","i","s","t","s",".">>
M_UnableToParse == <<"U","n","a","b","l","e"," ","t","o"," ","p","a","r","s","e"," ","A","I"," ","r","e","s","p","o","n","s","e">>

\* line 115: the default of the parameter
M_Default == <<"A","I"," ","p","a","r","s","i","n","g"," ","f","a","i","l","e","d">>

\* the argument as the body sees it: the default stands in for undefined
ErrorMessage(arg) == IF arg = Undefined THEN M_Default ELSE arg.v

\* createFallbackFeedback writing the default message whatever it is given
fallbackWithDefaultMessage(errorMessage) ==
    LET errorTip == Obj(<< <<K_type, Str(T_improve)>>,
                           <<K_tip, Str(M_ManualReview)>>,
                           <<K_explanation, Str(M_Default \o M_PleaseRetry)>> >>)
        basicTip == Obj(<< <<K_type, Str(T_improve)>>,
                           <<K_tip, Str(M_UploadFailed)>> >>)
        Sec(tip) == Obj(<< <<K_score, IntNum(50)>>, <<K_tips, Arr(<<tip>>)>> >>)
    IN  Obj(<< <<K_overallScore, IntNum(50)>>,
               <<K_ATS, Sec(basicTip)>>,
               <<K_toneAndStyle, Sec(errorTip)>>,
               <<K_content, Sec(errorTip)>>,
               <<K_structure, Sec(errorTip)>>,
               <<K_skills, Sec(errorTip)>> >>)

\* createFallbackFeedback with the basic tip in every section
fallbackWithoutExplanation(errorMessage) ==
    LET basicTip == Obj(<< <<K_type, Str(T_improve)>>,
                           <<K_tip, Str(M_UploadFailed)>> >>)
        Sec(tip) == Obj(<< <<K_score, IntNum(50)>>, <<K_tips, Arr(<<tip>>)>> >>)
    IN  Obj(<< <<K_overallScore, IntNum(50)>>,
               <<K_ATS, Sec(basicTip)>>,
               <<K_toneAndStyle, Sec(basicTip)>>,
               <<K_content, Sec(basicTip)>>,
               <<K_structure, Sec(basicTip)>>,
               <<K_skills, Sec(basicTip)>> >>)

createFallbackFeedback(errorMessage) ==
    LET errorTip == Obj(<< <<K_type, Str(T_improve)>>,
                           <<K_tip, Str(M_ManualReview)>>,
                           <<K_explanation, Str(errorMessage \o M_PleaseRetry)>> >>)
        basicTip == Obj(<< <<K_type, Str(T_improve)>>,
                           <<K_tip, Str(M_UploadFailed)>> >>)
        Sec(tip) == Obj(<< <<K_score, IntNum(50)>>, <<K_tips, Arr(<<tip>>)>> >>)
    IN  Obj(<< <<K_overallScore, IntNum(50)>>,
               <<K_ATS, Sec(basicTip)>>,
               <<K_toneAndStyle, Sec(errorTip)>>,
               <<K_content, Sec(errorTip)>>,
               <<K_structure, Sec(errorTip)>>,
               <<K_skills, Sec(errorTip)>> >>)

-----------------------------------------------------------------------------
(* parseAIFeedback, lines 155-215, stage by stage. *)

\* the grave accent, which the TLA+ lexer does not take inside a string
BackTick == "GRAVE"
F_fence == <<BackTick, BackTick, BackTick>>
F_fenceJson == F_fence \o <<"j","s","o","n">>

\* the closing fence left in place
KeepClosingFence(s) == s

\* the second replace of lines 168 and 170: white space and a closing
\* fence at the very end of the text
StripClosingFence(s) ==
    IF endsWith(s, F_fence)
    THEN SubSeq(s, 1, SkipBack(s, Len(s) - 3, WhiteSpace)) ELSE s

\* lines 166-171: remove markdown code blocks
RemoveCodeBlock(s) ==
    IF startsWith(s, F_fenceJson)
    THEN StripClosingFence(SubSeq(s, SkipFwd(s, 8, WhiteSpace), Len(s)))
    ELSE IF startsWith(s, F_fence)
    THEN StripClosingFence(SubSeq(s, SkipFwd(s, 4, WhiteSpace), Len(s)))
    ELSE s

\* the brace span matched lazily: up to the first closing brace
MatchObjectLazy(s) ==
    LET first == indexOf(s, "{")
        closing == {k \in (first + 1)..Len(s) : s[k] = "}"}
    IN  IF first >= 1 /\ closing # {}
        THEN <<SubSeq(s, first, Min(closing))>> ELSE <<>>

\* line 185: processedText.match of the greedy brace span, from the first
\* opening brace to the last closing brace: <<the match>>, <<>> for null
MatchObject(s) ==
    LET first == indexOf(s, "{")
        last == lastIndexOf(s, "}")
    IN  IF first >= 1 /\ last > first THEN <<SubSeq(s, first, last)>> ELSE <<>>

\* the gate of lines 175, 189 and 200 on what JSON.parse returned: [ok, val],
\* ok being false when the parse threw or the validator did not return true
Gate(parsed) ==
    [ok |-> parsed.ok /\ validateFeedbackStructure(parsed.val) = "true",
     val |-> parsed.val]

\* JSON.parse inside try, then the gate
TryParse(text) == Gate(JSONParse(text))

\* the returned object of lines 176, 190 and 201
Accepted(parsed, method) ==
    [success |-> TRUE, feedback |-> parsed, method |-> method, error |-> ""]

\* the fallback returned with the null feedback the return type allows
FallbackWithoutFeedback ==
    [success |-> FALSE, feedback |-> Null, method |-> "fallback",
     error |-> "All parsing strategies failed"]

\* lines 209-214
FallbackResult ==
    [success |-> FALSE,
     feedback |-> createFallbackFeedback(M_UnableToParse),
     method |-> "fallback",
     error |-> "All parsing strategies failed"]

\* no object returned yet
NoResult == [success |-> FALSE, feedback |-> Null, method |-> "", error |-> ""]

\* the return of an accepted record forgotten: every stage falls through
AfterWithoutReturn(stage, accepted) ==
    CASE stage = "direct" -> "extract"
      [] stage = "regex_extraction" -> "repair"
      [] stage = "repair" -> "fallback"

\* where control goes after a stage: an accepted record is returned at once
\* (lines 176, 190, 201), a rejected one falls through to the next stage
After(stage, accepted) ==
    IF accepted THEN "done"
    ELSE CASE stage = "direct" -> "extract"
           [] stage = "regex_extraction" -> "repair"
           [] stage = "repair" -> "fallback"

\* what a stage does with the gated record got
Conclude(stage, got) ==
    /\ attempts' = Append(attempts, [stage |-> stage, accepted |-> got.ok])
    /\ pc' = After(stage, got.ok)
    /\ result' = IF got.ok THEN Accepted(got.val, stage) ELSE result

\* one gated attempt of a stage on text
Attempt(stage, text) == Conclude(stage, TryParse(text))

\* lines 161-171
Clean ==
    /\ pc = "start"
    /\ processedText' = RemoveCodeBlock(trim(rawText))
    /\ pc' = "direct"
    /\ UNCHANGED <<input, rawText, jsonMatch, attempts, result, obj, outcome, message, pageVars, storeVars, rasterVars>>

\* lines 173-182, strategy 1
Direct ==
    /\ pc = "direct"
    /\ Attempt("direct", processedText)
    /\ UNCHANGED <<input, rawText, processedText, jsonMatch, obj, outcome, message, pageVars, storeVars, rasterVars>>

\* lines 185-194, strategy 2; without a match strategies 2 and 3 are skipped
Extract ==
    /\ pc = "extract"
    /\ jsonMatch' = MatchObject(processedText)
    /\ IF jsonMatch' = <<>>
       THEN pc' = "fallback" /\ UNCHANGED <<attempts, result>>
       ELSE Attempt("regex_extraction", jsonMatch'[1])
    /\ UNCHANGED <<input, rawText, processedText, obj, outcome, message, pageVars, storeVars, rasterVars>>

\* lines 196-205, strategy 3
Repair ==
    /\ pc = "repair"
    /\ Attempt("repair", repairJSON(jsonMatch[1]))
    /\ UNCHANGED <<input, rawText, processedText, jsonMatch, obj, outcome, message, pageVars, storeVars, rasterVars>>

\* lines 208-214, strategy 4
Fallback ==
    /\ pc = "fallback"
    /\ result' = FallbackResult
    /\ pc' = "done"
    /\ UNCHANGED <<input, rawText, processedText, jsonMatch, attempts, obj, outcome, message, pageVars, storeVars, rasterVars>>

-----------------------------------------------------------------------------
(* The values and texts the operations are run on. *)

\* the most tips a sampled section holds
MaxTips == 1

\* an object of the members whose value is not undefined
Members(pairs) == SelectSeq(pairs, LAMBDA p : p[2] # Undefined)

\* the shapes of lines 3-44
MkTip(type, tip, explanation) ==
    Obj(Members(<< <<K_type, type>>, <<K_tip, tip>>, <<K_explanation, explanation>> >>))
MkSection(score, tips) ==
    Obj(Members(<< <<K_score, score>>, <<K_tips, tips>> >>))
MkRecord(overallScore, secs) ==
    Obj(Members(<< <<K_overallScore, overallScore>> >> \o
                [i \in 1..5 |-> <<sections[i], secs[i]>>]))

\* tip and explanation texts: plain, with a comma, with braces, with quotes,
\* with a newline
S_plain == <<"G","o","o","d"," ","f","i","t">>
S_comma == <<"a",","," ","b">>
S_brace == <<"{","x","}">>
S_quote == <<"s","a","y"," ","\"","h","i","\"">>
S_newline == <<"a","\n","b">>
SampleTexts == {S_plain, S_comma, S_brace, S_quote, S_newline}

\* n well-formed tips of section i with the text txt
TipOf(i, txt) ==
    IF sections[i] = K_ATS THEN MkTip(Str(T_good), Str(txt), Undefined)
    ELSE MkTip(Str(T_improve), Str(txt), Str(txt))
TipsOf(i, txt, n) == [k \in 1..n |-> TipOf(i, txt)]

\* a record with the given overallScore, n tips of text txt in ATS and in
\* toneAndStyle, and no tips elsewhere
SampleRecord(overallScore, txt, n) ==
    MkRecord(overallScore,
             [i \in 1..5 |->
                 MkSection(IntNum(50 + 10 * i),
                           Arr(IF i <= 2 THEN TipsOf(i, txt, n) ELSE <<>>))])

\* scores a response may carry: the ends of the range, one inside, two
\* outside, and a fraction (85.5)
SampleScores == {IntNum(0), IntNum(82), IntNum(100), IntNum(150), IntNum(-5), Num(855, 1)}

\* records that pass validateFeedbackStructure
SampleRecords ==
    {SampleRecord(sc, S_plain, 0) : sc \in SampleScores} \cup
    {SampleRecord(IntNum(82), txt, n) : txt \in SampleTexts, n \in 1..MaxTips}

\* those of them whose scores are integers within 0..100
InRangeRecords ==
    {r \in SampleRecords :
        /\ Get(r, K_overallScore).v[2] = 0
        /\ Get(r, K_overallScore).v[1] \in 0..100}

\* values that are no feedback record
Junk ==
    {Undefined, Null, Bool(TRUE), Bool(FALSE), IntNum(0), IntNum(7),
     Str(<<>>), Str(T_good), Arr(<<>>), Obj(<<>>)}

\* a record whose sections hold n tips each, with section i replaced by sec
WithSection(i, sec, n) ==
    MkRecord(IntNum(82),
             [k \in 1..5 |->
                 IF k = i THEN sec
                 ELSE MkSection(IntNum(70), Arr(TipsOf(k, S_plain, n)))])

\* the tips of section i, the last one replaced by tip
WithLastTip(i, tip, n) == Arr(Append(TipsOf(i, S_plain, n - 1), tip))

\* every value reached from a well-formed record by replacing one part of
\* it (the record, overallScore, a section, its score, its tips, a tip, a
\* member of a tip) by a value of Junk; undefined removes the member
ValidatorValues ==
    Junk \cup
    {WithSection(1, MkSection(IntNum(70), Arr(TipsOf(1, S_plain, n))), n) : n \in 0..MaxTips} \cup
    {MkRecord(j, [k \in 1..5 |-> MkSection(IntNum(70), Arr(<<>>))]) : j \in Junk} \cup
    UNION {
        {WithSection(i, j, MaxTips),
         WithSection(i, MkSection(j, Arr(<<>>)), MaxTips),
         WithSection(i, MkSection(IntNum(70), j), MaxTips)} \cup
        UNION {
            {WithSection(i, MkSection(IntNum(70), WithLastTip(i, j, n)), n),
             WithSection(i, MkSection(IntNum(70),
                 WithLastTip(i, MkTip(j, Str(S_plain), Str(S_plain)), n)), n),
             WithSection(i, MkSection(IntNum(70),
                 WithLastTip(i, MkTip(Str(T_good), j, Str(S_plain)), n)), n),
             WithSection(i, MkSection(IntNum(70),
                 WithLastTip(i, MkTip(Str(T_improve), Str(S_plain), j), n)), n)}
            : n \in 1..MaxTips}
        : i \in 1..5, j \in Junk}

\* what may stand before and after the body of a response
Before(pre) ==
    CASE pre = "none" -> <<>>
      [] pre = "space" -> <<" ","\n">>
      [] pre = "formfeed" -> <<"\f", " ">>
      [] pre = "fence_json" -> F_fenceJson \o <<"\n">>
      [] pre = "fence_json_tight" -> F_fenceJson
      [] pre = "fence" -> F_fence \o <<"\n">>
      [] pre = "fence_javascript" -> F_fence \o <<"j","a","v","a","s","c","r","i","p","t","\n">>
      [] pre = "fence_JSON" -> F_fence \o <<"J","S","O","N","\n">>
      [] pre = "prose" -> <<"H","e","r","e"," ","i","s"," ","t","h","e"," ","r","e","s","u","l","t",":"," ">>
      [] pre = "brace" -> <<"U","s","e"," ","{","n","a","m","e","}",":"," ">>

After_(post) ==
    CASE post = "none" -> <<>>
      [] post = "space" -> <<"\n"," ">>
      [] post = "formfeed" -> <<" ", "\f">>
      [] post = "fence" -> <<"\n">> \o F_fence
      [] post = "fence_tight" -> F_fence
      [] post = "prose" -> <<" ","H","o","p","e"," ","t","h","i","s"," ","h","e","l","p","s",".">>
      [] post = "brace" -> <<" ","(","s","e","e"," ","}"," ","a","b","o","v","e",")">>

\* texts that hold no feedback record at all
T_cannot == <<"I"," ","c","a","n","n","o","t"," ","p","r","o","c","e","s","s"," ","t","h","i","s"," ","r","e","q","u","e","s","t",".">>
NoRecordTexts ==
    {T_cannot, <<>>, <<"{">>, <<"}">>, <<"}", "{">>, <<"{", "}">>, L_null,
     <<"4", "2">>, <<"[", "1", ",", "2", "]">>, F_fence, F_fenceJson,
     <<"{","n","o","t"," ","j","s","o","n","}">>,
     <<"{","\"","o","v","e","r","a","l","l","S","c","o","r","e","\"",":","8","2","}">>}

\* values that serialize to well-formed JSON and fail the validator
RejectedValues ==
    {WithSection(i, Undefined, MaxTips) : i \in {1, 5}} \cup
    {WithSection(2, MkSection(Str(S_plain), Arr(<<>>)), MaxTips),
     WithSection(3, MkSection(IntNum(70), Null), MaxTips),
     WithSection(1, MkSection(IntNum(70),
         Arr(<<MkTip(Str(S_plain), Str(S_plain), Undefined)>>)), MaxTips),
     WithSection(4, MkSection(IntNum(70),
         Arr(<<MkTip(Str(T_good), Str(S_plain), Undefined)>>)), MaxTips),
     MkRecord(Str(<<"8", "2">>), [k \in 1..5 |-> MkSection(IntNum(70), Arr(<<>>))]),
     Arr(<<SampleRecord(IntNum(82), S_plain, 0)>>)}

\* diagnostic messages: every text of up to MaxMessageLen characters, among
\* them the ones JSON.stringify escapes, and the two the code itself uses
MaxMessageLen == 2
MessageChars == {"a", " ", "\"", "\\", "\n", "}", ","}
Messages ==
    UNION {[1..n -> MessageChars] : n \in 0..MaxMessageLen} \cup
    {M_UnableToParse, M_Default}

\* what createFallbackFeedback is called with: a message, or nothing
MessageArgs == {Str(m) : m \in Messages} \cup {Undefined}

Styles(commas) == [pretty : BOOLEAN, comma : commas]
Wrap(family, recs, styles, wrappers) ==
    {[family |-> family, rec |-> r, style |-> st, pre |-> w[1], post |-> w[2]] :
        r \in recs, st \in styles, w \in wrappers}

\* the responses parseAIFeedback is run on, by how they are composed:
\*   serialized  a serialized record, white space around it
\*   fenced      the same inside a fenced code block
\*   prose       the same with prose before and/or after it
\*   comma       the same with a trailing comma before a closing brace, of
\*               the record (0), of a section (1) or of a tip (3)
\*   fallback    the serialized fallback record of a message
\*   rejected    a serialized value that is no feedback record
\*   text        a text that holds no record
Inputs ==
    Wrap("serialized", SampleRecords, Styles({-1}),
         {<<"none", "none">>, <<"space", "space">>, <<"formfeed", "formfeed">>}) \cup
    Wrap("fenced", InRangeRecords, Styles({-1}),
         {<<"fence_json", "fence">>, <<"fence_json_tight", "fence_tight">>,
          <<"fence", "fence">>, <<"fence_javascript", "fence">>,
          <<"fence_JSON", "fence">>}) \cup
    Wrap("prose", InRangeRecords, Styles({-1}),
         {<<"prose", "none">>, <<"none", "prose">>, <<"prose", "prose">>,
          <<"fence_json", "prose">>, <<"brace", "none">>, <<"none", "brace">>,
          <<"prose", "brace">>}) \cup
    Wrap("comma", InRangeRecords, Styles({0, 1, 3}), {<<"none", "none">>}) \cup
    Wrap("fallback", {createFallbackFeedback(m) : m \in Messages}, Styles({-1}),
         {<<"none", "none">>}) \cup
    Wrap("rejected", RejectedValues, {Compact},
         {<<"none", "none">>, <<"prose", "none">>, <<"fence_json", "fence">>}) \cup
    Wrap("text", {Str(t) : t \in NoRecordTexts}, {Compact}, {<<"none", "none">>})

\* the text of an input
Body(in) ==
    IF in.family = "text" THEN in.rec.v ELSE Stringify(in.rec, in.style, 0)
RawText(in) == Before(in.pre) \o Body(in) \o After_(in.post)

-----------------------------------------------------------------------------
(* The specifications. *)

\* lines 168-182: the state the store is created with
InitialStore ==
    [isLoading |-> TRUE, error |-> <<>>, puterReady |-> FALSE,
     auth |-> [user |-> "", isAuthenticated |-> FALSE]]

\* the store whose failures leave no message
setErrorSilent(st, msg) == [st EXCEPT !.isLoading = FALSE]

\* lines 83-86: set({ error: msg, isLoading: false })
setError(st, msg) == [st EXCEPT !.error = <<msg>>, !.isLoading = FALSE]

\* the store is not in use
NoStore ==
    /\ store = InitialStore
    /\ puter = FALSE
    /\ intervals = <<>>
    /\ requests = <<>>

\* lines 205-207: the rasterizer module as loaded, with no call made
NoRaster ==
    /\ pdfjsLib = 0
    /\ isLoading = FALSE
    /\ loadPromise = 0
    /\ imports = <<>>
    /\ calls = <<>>

\* one call of parseAIFeedback on each input
\* no review page is open
NoPage ==
    /\ NoStore
    /\ NoRaster
    /\ files = {}
    /\ kv = <<>>
    /\ records = <<>>
    /\ id = ""
    /\ mounted = "none"
    /\ imageUrl = <<>>
    /\ resumeUrl = <<>>
    /\ feedback = Null
    /\ loading = TRUE
    /\ error = <<>>
    /\ loads = <<>>

Init ==
    /\ input \in Inputs
    /\ rawText = RawText(input)
    /\ pc = "start"
    /\ processedText = <<>>
    /\ jsonMatch = <<>>
    /\ attempts = <<>>
    /\ result = NoResult
    /\ obj = Undefined
    /\ outcome = <<>>
    /\ message = <<>>
    /\ NoPage

Next == Clean \/ Direct \/ Extract \/ Repair \/ Fallback

Spec == Init /\ [][Next]_vars

\* validateFeedbackStructure called, and called again, on each value
NoInput == [family |-> "none", rec |-> Undefined, style |-> Compact,
            pre |-> "none", post |-> "none"]

InitValidator ==
    /\ obj \in ValidatorValues
    /\ outcome = <<>>
    /\ pc = "validate"
    /\ input = NoInput
    /\ rawText = <<>>
    /\ processedText = <<>>
    /\ jsonMatch = <<>>
    /\ attempts = <<>>
    /\ result = NoResult
    /\ message = <<>>
    /\ NoPage

\* lines 49-76: the call reads obj and assigns to no part of it
Validate ==
    /\ pc = "validate"
    /\ Len(outcome) < 2
    /\ outcome' = Append(outcome, validateFeedbackStructure(obj))
    /\ UNCHANGED <<obj, pc, input, rawText, processedText, jsonMatch, attempts, result, message, pageVars, storeVars, rasterVars>>

NextValidator == Validate

SpecValidator == InitValidator /\ [][NextValidator]_vars

\* createFallbackFeedback called on each message
InitFallback ==
    /\ message \in MessageArgs
    /\ pc = "create"
    /\ obj = Undefined
    /\ outcome = <<>>
    /\ input = NoInput
    /\ rawText = <<>>
    /\ processedText = <<>>
    /\ jsonMatch = <<>>
    /\ attempts = <<>>
    /\ result = NoResult
    /\ NoPage

\* lines 115-150
CreateFallback ==
    /\ pc = "create"
    /\ obj' = createFallbackFeedback(ErrorMessage(message))
    /\ pc' = "created"
    /\ UNCHANGED <<message, outcome, input, rawText, processedText, jsonMatch,
                   attempts, result, pageVars, storeVars, rasterVars>>

NextFallback == CreateFallback

SpecFallback == InitFallback /\ [][NextFallback]_vars

-----------------------------------------------------------------------------
(* The review page, Resume: one component instance per page load, its      *)
(* state, and the invocations of loadResume it starts.  kv.get and fs.read *)
(* go through safeApiCall, which turns a failed call into undefined, so a  *)
(* store call always resolves: to a value or to nothing.                   *)

K_resumePath == <<"r","e","s","u","m","e","P","a","t","h">>
K_imagePath == <<"i","m","a","g","e","P","a","t","h">>
K_feedback == <<"f","e","e","d","b","a","c","k">>

\* the identifiers a page is opened with
Ids == {"A", "B"}

\* line 34: the key of an identifier's record
KeyOf(i) == "resume:" \o i
Keys == {KeyOf(i) : i \in Ids}

\* the paths a stored record may name, and whether the file store has them
DocPath(i, there) == <<"/", i>> \o (IF there THEN <<".","p","d","f">> ELSE <<".","o","l","d">>)
ImgPath(i, there) == <<"/", i>> \o (IF there THEN <<".","p","n","g">> ELSE <<".","t","m","p">>)
Files == {DocPath(i, TRUE) : i \in Ids} \cup {ImgPath(i, TRUE) : i \in Ids}

\* what fs.read(path) resolves to: the blob, named by its path, or nothing
FsRead(path) == IF path.t = "str" /\ path.v \in files THEN Str(path.v) ELSE Undefined

\* the messages the Puter service fails with: kv.get when the service is
\* out of reach, fs.read when the path holds no blob
M_Network == "Network error"
M_NoSuchFile == "No such file"

\* lines 96-100: a store call that failed leaves its message in the store
Failed(value, msg) ==
    store' = IF value = Undefined THEN setError(store, msg) ELSE store

\* URL.createObjectURL(blob)
CreateObjectURL(blob) == <<"b","l","o","b",":">> \o blob.v

\* the feedback stored for an identifier
FeedbackOf(i) == SampleRecord(IntNum(IF i = "A" THEN 82 ELSE 100), S_plain, 0)

\* a stored record
Analysis(doc, img, more) ==
    Obj(<< <<K_resumePath, Str(doc)>>, <<K_imagePath, Str(img)>> >> \o more)

\* what kv.get may resolve to for identifier i: nothing (call failed), null
\* (no entry), a text that is no JSON, the JSON null, a record without its
\* image path, records whose document, image or both are gone, and complete
\* records without feedback, with an empty, a valid and an invalid feedback
Stored(i) ==
    {Undefined, Null,
     Str(<<"o","o","p","s">>),
     Str(L_null),
     Str(JSONStringify(Obj(<< <<K_resumePath, Str(DocPath(i, TRUE))>> >>))),
     Str(JSONStringify(Analysis(DocPath(i, FALSE), ImgPath(i, TRUE), <<>>))),
     Str(JSONStringify(Analysis(DocPath(i, TRUE), ImgPath(i, FALSE), <<>>))),
     Str(JSONStringify(Analysis(DocPath(i, FALSE), ImgPath(i, FALSE), <<>>))),
     Str(JSONStringify(Analysis(DocPath(i, TRUE), ImgPath(i, TRUE), <<>>))),
     Str(JSONStringify(Analysis(DocPath(i, TRUE), ImgPath(i, TRUE),
                                << <<K_feedback, Str(<<>>)>> >>))),
     Str(JSONStringify(Analysis(DocPath(i, TRUE), ImgPath(i, TRUE),
                                << <<K_feedback, FeedbackOf(i)>> >>))),
     Str(JSONStringify(Analysis(DocPath(i, TRUE), ImgPath(i, TRUE),
                                << <<K_feedback, Obj(<< <<K_overallScore, IntNum(82)>> >>)>> >>)))}

Stores ==
    {st \in [Keys -> UNION {Stored(i) : i \in Ids}] :
        \A i \in Ids : st[KeyOf(i)] \in Stored(i)}

\* the loads one page may start
MaxLoads == 2

\* the variables of the other components
otherVars == <<input, rawText, pc, processedText, jsonMatch, attempts, result,
               obj, outcome, message, puter, intervals, requests, rasterVars>>

\* lines 28-34: loadResume as far as its first await, kv.get issued; gets
\* and reads log the store calls of the invocation, alone tells whether
\* every earlier invocation had returned when this one began
Begin(i) ==
    [id |-> i, pc |-> "kv.get", data |-> Undefined, gets |-> 1, reads |-> <<>>,
     alone |-> \A k \in 1..Len(loads) : loads[k].pc = "done"]

\* lines 27-106: the effect run for identifier i
RunEffect(i) ==
    IF i # ""
    THEN /\ loading' = TRUE
         /\ error' = <<>>
         /\ loads' = Append(loads, Begin(i))
    ELSE UNCHANGED <<loading, error, loads>>

\* the failure return that tries the load once more
FailAndRetry(k, reason) ==
    /\ loads' = [loads EXCEPT ![k] =
                    IF @.gets < 2
                    THEN [@ EXCEPT !.pc = "kv.get", !.gets = @ + 1]
                    ELSE [@ EXCEPT !.pc = "done"]]
    /\ IF mounted = "mounted"
       THEN error' = <<reason>> /\ loading' = FALSE
       ELSE UNCHANGED <<error, loading>>
    /\ UNCHANGED <<imageUrl, resumeUrl, feedback>>

\* the failure return that leaves the loading flag set
FailStillLoading(k, reason) ==
    /\ loads' = [loads EXCEPT ![k].pc = "done"]
    /\ IF mounted = "mounted"
       THEN error' = <<reason>>
       ELSE UNCHANGED error
    /\ UNCHANGED <<imageUrl, resumeUrl, feedback, loading>>

\* setError(reason); setLoading(false); return.  The setters of a component
\* that is no longer mounted change nothing.
FailLoad(k, reason) ==
    /\ loads' = [loads EXCEPT ![k].pc = "done"]
    /\ IF mounted = "mounted"
       THEN error' = <<reason>> /\ loading' = FALSE
       ELSE UNCHANGED <<error, loading>>
    /\ UNCHANGED <<imageUrl, resumeUrl, feedback>>

\* lines 44-63, with the outcome of JSON.parse; reading a property of null
\* throws into the catch of line 96
AfterParse(k, parsed) ==
    IF ~parsed.ok THEN FailLoad(k, "Invalid resume data")
    ELSE IF ~HasProps(parsed.val) THEN FailLoad(k, "Failed to load resume: TypeError")
    ELSE IF Falsy(Get(parsed.val, K_resumePath)) \/ Falsy(Get(parsed.val, K_imagePath))
         THEN FailLoad(k, "Resume files missing")
    ELSE /\ loads' = [loads EXCEPT ![k] =
                         [@ EXCEPT !.pc = "fs.read resume",
                                   !.data = parsed.val,
                                   !.reads = Append(@, Get(parsed.val, K_resumePath))]]
         /\ UNCHANGED <<imageUrl, resumeUrl, feedback, loading, error>>

\* the record parsed without the test of line 37: JSON.parse(null) is null,
\* JSON.parse(undefined) throws
AfterGetUnchecked(k, resume) ==
    IF resume = Undefined THEN FailLoad(k, "Invalid resume data")
    ELSE IF resume = Null THEN AfterParse(k, [ok |-> TRUE, val |-> Null])
    ELSE AfterParse(k, records[KeyOf(loads[k].id)])

\* lines 34-46, with what kv.get resolved to
AfterGet(k, resume) ==
    IF Falsy(resume) THEN FailLoad(k, "Resume not found")
    ELSE AfterParse(k, records[KeyOf(loads[k].id)])

\* the document blob used without the test of line 64
AfterDocUnchecked(k, resumeBlob) ==
    /\ resumeUrl' = IF mounted = "mounted" THEN <<"b","l","o","b",":">>
                    ELSE resumeUrl
    /\ loads' = [loads EXCEPT ![k] =
                    [@ EXCEPT !.pc = "fs.read image",
                              !.reads = Append(@, Get(loads[k].data, K_imagePath))]]
    /\ UNCHANGED <<imageUrl, feedback, loading, error>>

\* lines 64-77, with what fs.read(data.resumePath) resolved to
AfterDoc(k, resumeBlob) ==
    IF Falsy(resumeBlob) THEN FailLoad(k, "Failed to load resume file")
    ELSE /\ resumeUrl' = IF mounted = "mounted" THEN CreateObjectURL(resumeBlob)
                         ELSE resumeUrl
         /\ loads' = [loads EXCEPT ![k] =
                         [@ EXCEPT !.pc = "fs.read image",
                                   !.reads = Append(@, Get(loads[k].data, K_imagePath))]]
         /\ UNCHANGED <<imageUrl, feedback, loading, error>>

\* lines 78-95, with what fs.read(data.imagePath) resolved to
AfterImage(k, imageBlob) ==
    IF Falsy(imageBlob) THEN FailLoad(k, "Failed to load resume image")
    ELSE /\ loads' = [loads EXCEPT ![k].pc = "done"]
         /\ IF mounted = "mounted"
            THEN /\ imageUrl' = CreateObjectURL(imageBlob)
                 /\ feedback' = IF Falsy(Get(loads[k].data, K_feedback))
                                THEN feedback
                                ELSE Get(loads[k].data, K_feedback)
                 /\ loading' = FALSE
            ELSE UNCHANGED <<imageUrl, feedback, loading>>
         /\ UNCHANGED <<resumeUrl, error>>

\* the load that leaves a scratch blob in the file store
LeavesScratch == files' = files \cup {<<"/","t","m","p">>} /\ UNCHANGED kv

\* lines 27-106 call kv.get and fs.read and no operation that writes: the
\* key-value store and the file store stay as they are
NoWrite == UNCHANGED <<kv, files>>

\* the component is mounted and its effect runs for the first time
Mount ==
    /\ mounted = "rendering"
    /\ mounted' = "mounted"
    /\ RunEffect(id)
    /\ NoWrite
    /\ UNCHANGED <<store, records, id, imageUrl, resumeUrl, feedback, otherVars>>

\* the route parameter changes: the same component renders with the new
\* identifier and the effect of lines 27-106 runs again
Navigate(i) ==
    /\ mounted = "mounted"
    /\ i # id
    /\ Len(loads) < MaxLoads
    /\ id' = i
    /\ RunEffect(i)
    /\ NoWrite
    /\ UNCHANGED <<store, records, mounted, imageUrl, resumeUrl, feedback, otherVars>>

\* the await of line 34 resumes in load k
KvGot(k) ==
    /\ loads[k].pc = "kv.get"
    /\ AfterGet(k, kv[KeyOf(loads[k].id)])
    /\ Failed(kv[KeyOf(loads[k].id)], M_Network)
    /\ NoWrite
    /\ UNCHANGED <<records, id, mounted, otherVars>>

\* the await of line 63 resumes in load k
DocRead(k) ==
    /\ loads[k].pc = "fs.read resume"
    /\ AfterDoc(k, FsRead(Get(loads[k].data, K_resumePath)))
    /\ Failed(FsRead(Get(loads[k].data, K_resumePath)), M_NoSuchFile)
    /\ NoWrite
    /\ UNCHANGED <<records, id, mounted, otherVars>>

\* the await of line 77 resumes in load k
ImageRead(k) ==
    /\ loads[k].pc = "fs.read image"
    /\ AfterImage(k, FsRead(Get(loads[k].data, K_imagePath)))
    /\ Failed(FsRead(Get(loads[k].data, K_imagePath)), M_NoSuchFile)
    /\ NoWrite
    /\ UNCHANGED <<records, id, mounted, otherVars>>

\* the user leaves the page; loads in flight go on
Unmount ==
    /\ mounted = "mounted"
    /\ mounted' = "unmounted"
    /\ UNCHANGED <<store, kv, files, records, id, imageUrl, resumeUrl, feedback, loading, error, loads, otherVars>>

\* line 138, Try Again: window.location.reload() opens the page anew
Reload ==
    /\ mounted = "mounted"
    /\ error # <<>>
    /\ mounted' = "rendering"
    /\ imageUrl' = <<>>
    /\ resumeUrl' = <<>>
    /\ feedback' = Null
    /\ loading' = TRUE
    /\ error' = <<>>
    /\ loads' = <<>>
    /\ store' = InitialStore
    /\ UNCHANGED <<kv, files, records, id, otherVars>>

\* lines 132-155: what the feedback section shows
View ==
    IF error # <<>> THEN "error"
    ELSE IF ~Falsy(feedback) THEN "feedback"
    ELSE IF loading THEN "loading"
    ELSE "processing"

\* JSON.parse is a function of the text alone: records holds its outcome
\* for the text stored under each identifier
ParseStored(resume) ==
    IF resume.t = "str" THEN JSONParse(resume.v) ELSE [ok |-> FALSE, val |-> Undefined]

InitPage ==
    /\ kv \in Stores
    /\ files = Files
    /\ store = InitialStore
    /\ puter = TRUE
    /\ intervals = <<>>
    /\ requests = <<>>
    /\ NoRaster
    /\ records = [key \in Keys |-> ParseStored(kv[key])]
    /\ id \in Ids \cup {""}
    /\ mounted = "rendering"
    /\ imageUrl = <<>>
    /\ resumeUrl = <<>>
    /\ feedback = Null
    /\ loading = TRUE
    /\ error = <<>>
    /\ loads = <<>>
    /\ input = NoInput
    /\ rawText = <<>>
    /\ pc = "page"
    /\ processedText = <<>>
    /\ jsonMatch = <<>>
    /\ attempts = <<>>
    /\ result = NoResult
    /\ obj = Undefined
    /\ outcome = <<>>
    /\ message = <<>>

\* some store call resolves and its load goes on
Resumed == \E k \in 1..Len(loads) : KvGot(k) \/ DocRead(k) \/ ImageRead(k)

NextPage ==
    \/ Mount
    \/ \E i \in Ids : Navigate(i)
    \/ \E k \in 1..Len(loads) : KvGot(k)
    \/ \E k \in 1..Len(loads) : DocRead(k)
    \/ \E k \in 1..Len(loads) : ImageRead(k)
    \/ Unmount
    \/ Reload

SpecPage == InitPage /\ [][NextPage]_vars

\* every store call resolves, and a rendered component gets mounted
SpecPageFair == SpecPage /\ WF_vars(Mount) /\ WF_vars(Resumed)

-----------------------------------------------------------------------------
(* The rasterizer: loadPdfJs, lines 205-241, which memoizes the import of  *)
(* the rendering engine, and convertPdfToImage, lines 243-338.  An import  *)
(* is a record with its state; the engine instance import n yields is n.   *)
(* A call of convertPdfToImage is a record with its position (the await it *)
(* is suspended at) and, once it has returned, its result.                 *)

\* the calls of convertPdfToImage
MaxCalls == 2

UpperCase == <<"A","B","C","D","E","F","G","H","I","J","K","L","M",
               "N","O","P","Q","R","S","T","U","V","W","X","Y","Z">>
LowerCase == <<"a","b","c","d","e","f","g","h","i","j","k","l","m",
               "n","o","p","q","r","s","t","u","v","w","x","y","z">>

\* String.prototype.toLowerCase
toLowerCase(s) ==
    [i \in 1..Len(s) |->
        IF \E k \in 1..26 : UpperCase[k] = s[i]
        THEN LowerCase[CHOOSE k \in 1..26 : UpperCase[k] = s[i]]
        ELSE s[i]]

\* String.prototype.includes
includes(s, sub) ==
    \E k \in 0..(Len(s) - Len(sub)) : SubSeq(s, k + 1, k + Len(sub)) = sub

T_pdf == <<"p","d","f">>
T_dotPdf == <<".","p","d","f">>
T_dotPng == <<".","p","n","g">>
T_applicationPdf == <<"a","p","p","l","i","c","a","t","i","o","n","/","p","d","f">>
T_textPlain == <<"t","e","x","t","/","p","l","a","i","n">>
T_imagePng == <<"i","m","a","g","e","/","p","n","g">>

\* a File
MkFile(name, type) == [name |-> name, type |-> type]

\* what convertPdfToImage is called with: no file, and files whose type
\* and name agree or disagree on the format
Uploads ==
    {Null,
     MkFile(<<"a",".","p","d","f">>, T_applicationPdf),
     MkFile(<<"a",".","P","D","F">>, T_textPlain),
     MkFile(<<"a",".","t","x","t">>, T_applicationPdf),
     MkFile(<<"a",".","t","x","t">>, T_textPlain),
     MkFile(<<"p","d","f">>, <<>>)}

\* the test that lets every named file through
IsPdfAlways(file) == TRUE

\* line 256: the negation of the test that rejects a file
IsPdf(file) ==
    includes(file.type, T_pdf) \/ endsWith(toLowerCase(file.name), T_dotPdf)

\* a PdfConversionResult, lines 199-203; <<>> stands for '' and for no error
Converted(url, png) == [imageUrl |-> url, file |-> png, error |-> <<>>]
NotConverted(msg) == [imageUrl |-> <<>>, file |-> Null, error |-> <<msg>>]
NoConversion == [imageUrl |-> <<>>, file |-> Null, error |-> <<>>]

\* lines 308-311: the image file, named after the document
ImageFile(file) ==
    MkFile((IF endsWith(toLowerCase(file.name), T_dotPdf)
            THEN SubSeq(file.name, 1, Len(file.name) - 4)
            ELSE file.name) \o T_dotPng, T_imagePng)

\* a call that has returned
Done(file, browser, res) ==
    [file |-> file, browser |-> browser, pc |-> "done", awaits |-> 0, lib |-> 0,
     result |-> res]

\* a call suspended at line 273: awaits is the import it waits for, or 0
\* with lib the engine it was handed at once
Waiting(file, browser, n, lib) ==
    [file |-> file, browser |-> browser, pc |-> "loadPdfJs", awaits |-> n,
     lib |-> lib, result |-> NoConversion]

\* loadPdfJs that starts an import whenever no engine is there yet
loadPdfJsAnew(file, browser) ==
    IF pdfjsLib # 0
    THEN /\ calls' = Append(calls, Waiting(file, browser, 0, pdfjsLib))
         /\ UNCHANGED <<pdfjsLib, isLoading, loadPromise, imports>>
    ELSE /\ isLoading' = TRUE
         /\ imports' = Append(imports, "pending")
         /\ loadPromise' = Len(imports) + 1
         /\ calls' = Append(calls, Waiting(file, browser, Len(imports) + 1, 0))
         /\ UNCHANGED pdfjsLib

\* loadPdfJs that keeps the promise of a failed import
loadPdfJsMemo(file, browser) ==
    IF pdfjsLib # 0
    THEN /\ calls' = Append(calls, Waiting(file, browser, 0, pdfjsLib))
         /\ UNCHANGED <<pdfjsLib, isLoading, loadPromise, imports>>
    ELSE IF imports # <<>>
    THEN /\ calls' = Append(calls, Waiting(file, browser, Len(imports), 0))
         /\ UNCHANGED <<pdfjsLib, isLoading, loadPromise, imports>>
    ELSE /\ isLoading' = TRUE
         /\ imports' = Append(imports, "pending")
         /\ loadPromise' = Len(imports) + 1
         /\ calls' = Append(calls, Waiting(file, browser, Len(imports) + 1, 0))
         /\ UNCHANGED pdfjsLib

\* lines 209-241, as called from line 273: the engine if it is there, the
\* import in flight if there is one, else a new import
loadPdfJs(file, browser) ==
    IF pdfjsLib # 0
    THEN /\ calls' = Append(calls, Waiting(file, browser, 0, pdfjsLib))
         /\ UNCHANGED <<pdfjsLib, isLoading, loadPromise, imports>>
    ELSE IF loadPromise # 0
    THEN /\ calls' = Append(calls, Waiting(file, browser, loadPromise, 0))
         /\ UNCHANGED <<pdfjsLib, isLoading, loadPromise, imports>>
    ELSE /\ isLoading' = TRUE
         /\ imports' = Append(imports, "pending")
         /\ loadPromise' = Len(imports) + 1
         /\ calls' = Append(calls, Waiting(file, browser, Len(imports) + 1, 0))
         /\ UNCHANGED pdfjsLib

\* what is left alone by the rasterizer
notRaster ==
    <<input, rawText, pc, processedText, jsonMatch, attempts, result, obj,
      outcome, message, pageVars, storeVars>>

\* lines 243-273: convertPdfToImage(file) as far as its first await
Convert(file, browser) ==
    /\ Len(calls) < MaxCalls
    /\ IF file = Null
       THEN /\ calls' = Append(calls, Done(file, browser, NotConverted("No file provided")))
            /\ UNCHANGED <<pdfjsLib, isLoading, loadPromise, imports>>
       ELSE IF ~IsPdf(file)
       THEN /\ calls' = Append(calls, Done(file, browser, NotConverted("File must be a PDF")))
            /\ UNCHANGED <<pdfjsLib, isLoading, loadPromise, imports>>
       ELSE IF ~browser
       THEN /\ calls' = Append(calls, Done(file, browser,
                    NotConverted("PDF conversion is only available in the browser.")))
            /\ UNCHANGED <<pdfjsLib, isLoading, loadPromise, imports>>
       ELSE loadPdfJs(file, browser)
    /\ UNCHANGED notRaster

\* lines 216-238: import n settles and its handler runs
ImportSettled(n, ok) ==
    /\ imports[n] = "pending"
    /\ IF ok
       THEN /\ pdfjsLib' = n
            /\ imports' = [imports EXCEPT ![n] = "fulfilled"]
            /\ UNCHANGED loadPromise
       ELSE /\ loadPromise' = 0
            /\ imports' = [imports EXCEPT ![n] = "rejected"]
            /\ UNCHANGED pdfjsLib
    /\ isLoading' = FALSE
    /\ UNCHANGED <<calls, notRaster>>

\* the error that escapes the call: its promise rejects
Uncaught(c, msg) == calls' = [calls EXCEPT ![c].pc = "rejected"]

\* the catch of lines 329-337 with the error's message
Caught(c, msg) ==
    calls' = [calls EXCEPT ![c] =
                 [@ EXCEPT !.pc = "done",
                           !.result = NotConverted("Failed to convert PDF: " \o msg)]]

\* the call goes on to its next await
Advance(c, next) == calls' = [calls EXCEPT ![c].pc = next]

\* line 273: the await of loadPdfJs() resumes
Loaded(c) ==
    /\ calls[c].pc = "loadPdfJs"
    /\ IF calls[c].awaits = 0
       THEN Advance(c, "arrayBuffer")
       ELSE /\ imports[calls[c].awaits] # "pending"
            /\ IF imports[calls[c].awaits] = "rejected"
               THEN Caught(c, "PDF.js loading failed: import failed")
               ELSE calls' = [calls EXCEPT ![c] =
                                 [@ EXCEPT !.pc = "arrayBuffer", !.lib = calls[c].awaits]]
    /\ UNCHANGED <<pdfjsLib, isLoading, loadPromise, imports, notRaster>>

\* line 277: file.arrayBuffer() settles
BufferRead(c, ok) ==
    /\ calls[c].pc = "arrayBuffer"
    /\ IF ok THEN Advance(c, "getDocument") ELSE Caught(c, "read failed")
    /\ UNCHANGED <<pdfjsLib, isLoading, loadPromise, imports, notRaster>>

\* line 281: lib.getDocument(...).promise settles
DocumentLoaded(c, ok) ==
    /\ calls[c].pc = "getDocument"
    /\ IF ok THEN Advance(c, "getPage") ELSE Caught(c, "Invalid PDF structure")
    /\ UNCHANGED <<pdfjsLib, isLoading, loadPromise, imports, notRaster>>

\* lines 285-301: pdf.getPage(1) settles; with the page, the canvas gives
\* a 2D context or none
PageLoaded(c, ok, context) ==
    /\ calls[c].pc = "getPage"
    /\ IF ~ok THEN Caught(c, "Invalid page request")
       ELSE IF ~context THEN Caught(c, "Failed to obtain 2D canvas context.")
       ELSE Advance(c, "render")
    /\ UNCHANGED <<pdfjsLib, isLoading, loadPromise, imports, notRaster>>

\* lines 301-328: page.render(...).promise settles; canvas.toBlob is called
Rendered(c, ok) ==
    /\ calls[c].pc = "render"
    /\ IF ok THEN Advance(c, "toBlob") ELSE Caught(c, "render failed")
    /\ UNCHANGED <<pdfjsLib, isLoading, loadPromise, imports, notRaster>>

\* lines 305-324: the callback of canvas.toBlob runs, with a blob or null
Encoded(c, blob) ==
    /\ calls[c].pc = "toBlob"
    /\ calls' = [calls EXCEPT ![c] =
                    [@ EXCEPT !.pc = "done",
                              !.result =
                                  IF blob
                                  THEN Converted(CreateObjectURL(Str(ImageFile(calls[c].file).name)),
                                                 ImageFile(calls[c].file))
                                  ELSE NotConverted("Failed to create image blob")]]
    /\ UNCHANGED <<pdfjsLib, isLoading, loadPromise, imports, notRaster>>

InitRaster ==
    /\ NoRaster
    /\ NoStore
    /\ files = {}
    /\ kv = <<>>
    /\ records = <<>>
    /\ id = ""
    /\ mounted = "none"
    /\ imageUrl = <<>>
    /\ resumeUrl = <<>>
    /\ feedback = Null
    /\ loading = TRUE
    /\ error = <<>>
    /\ loads = <<>>
    /\ input = NoInput
    /\ rawText = <<>>
    /\ pc = "raster"
    /\ processedText = <<>>
    /\ jsonMatch = <<>>
    /\ attempts = <<>>
    /\ result = NoResult
    /\ obj = Undefined
    /\ outcome = <<>>
    /\ message = <<>>

NextRaster ==
    \/ \E file \in Uploads, browser \in BOOLEAN : Convert(file, browser)
    \/ \E n \in 1..Len(imports), ok \in BOOLEAN : ImportSettled(n, ok)
    \/ \E c \in 1..Len(calls) : Loaded(c)
    \/ \E c \in 1..Len(calls), ok \in BOOLEAN : BufferRead(c, ok)
    \/ \E c \in 1..Len(calls), ok \in BOOLEAN : DocumentLoaded(c, ok)
    \/ \E c \in 1..Len(calls), ok, context \in BOOLEAN : PageLoaded(c, ok, context)
    \/ \E c \in 1..Len(calls), ok \in BOOLEAN : Rendered(c, ok)
    \/ \E c \in 1..Len(calls), blob \in BOOLEAN : Encoded(c, blob)

SpecRaster == InitRaster /\ [][NextRaster]_vars

-----------------------------------------------------------------------------
(* The store, usePuterStore: the fs, ai and kv operations of lines 183-203,*)
(* each a call of the Puter client wrapped in safeApiCall, lines 88-102.   *)
(* A request is a record with the operation, what the client did with it   *)
(* (outcome) and, once it has returned, the value it resolved to.          *)

\* the requests made of the store
MaxRequests == 2

\* lines 183-203
Operations ==
    {"fs.write", "fs.read", "fs.upload", "fs.delete", "fs.readDir",
     "ai.chat", "ai.feedback", "ai.img2txt",
     "kv.get", "kv.set", "kv.delete", "kv.list", "kv.flush"}

M_NotAvailable == "Puter.js not available"
M_UnknownApi == "An unknown API error occurred"

\* what the client does with a call: it resolves to a value, it rejects
\* (or throws) with an Error, or it rejects with something else
Resolves(val) == [kind |-> "value", val |-> val, message |-> ""]
Rejects(msg) == [kind |-> "Error", val |-> Undefined, message |-> msg]
RejectsOther == [kind |-> "other", val |-> Undefined, message |-> ""]
NoClient == [kind |-> "none", val |-> Undefined, message |-> ""]
Pending == [kind |-> "pending", val |-> Undefined, message |-> ""]
Outcomes ==
    {Resolves(Str(<<"v">>)), Resolves(Null), Rejects(M_Network), RejectsOther}

\* line 97: the message of what was caught
MessageOf(err) ==
    IF err.kind = "Error" THEN err.message ELSE M_UnknownApi

otherThanStore ==
    <<input, rawText, pc, processedText, jsonMatch, attempts, result, obj,
      outcome, message, pageVars, rasterVars>>

\* lines 88-95: an operation is called; without the client it returns at
\* once, with it the call is made and awaited
Call(op) ==
    /\ Len(requests) < MaxRequests
    /\ IF ~puter
       THEN /\ store' = setError(store, M_NotAvailable)
            /\ requests' = Append(requests,
                   [op |-> op, pc |-> "done", outcome |-> NoClient, value |-> Undefined])
       ELSE /\ requests' = Append(requests,
                   [op |-> op, pc |-> "await", outcome |-> Pending, value |-> Undefined])
            /\ UNCHANGED store
    /\ UNCHANGED <<puter, intervals, otherThanStore>>

\* lines 95-101: the awaited call settles
Settled(r, settled) ==
    /\ requests[r].pc = "await"
    /\ requests' = [requests EXCEPT ![r] =
                       [@ EXCEPT !.pc = "done", !.outcome = settled,
                                 !.value = settled.val]]
    /\ store' = IF settled.kind = "value" THEN store
                ELSE setError(store, MessageOf(settled))
    /\ UNCHANGED <<puter, intervals, otherThanStore>>

\* line 173: clearError
ClearError ==
    /\ store.error # <<>>
    /\ store' = [store EXCEPT !.error = <<>>]
    /\ UNCHANGED <<requests, puter, intervals, otherThanStore>>

\* the script of the client has loaded: window.puter is there
ClientAppears ==
    /\ ~puter
    /\ puter' = TRUE
    /\ UNCHANGED <<store, requests, intervals, otherThanStore>>

InitStore ==
    /\ store = InitialStore
    /\ puter \in BOOLEAN
    /\ intervals = <<>>
    /\ requests = <<>>
    /\ NoRaster
    /\ files = {}
    /\ kv = <<>>
    /\ records = <<>>
    /\ id = ""
    /\ mounted = "none"
    /\ imageUrl = <<>>
    /\ resumeUrl = <<>>
    /\ feedback = Null
    /\ loading = TRUE
    /\ error = <<>>
    /\ loads = <<>>
    /\ input = NoInput
    /\ rawText = <<>>
    /\ pc = "store"
    /\ processedText = <<>>
    /\ jsonMatch = <<>>
    /\ attempts = <<>>
    /\ result = NoResult
    /\ obj = Undefined
    /\ outcome = <<>>
    /\ message = <<>>

NextStore ==
    \/ \E op \in Operations : Call(op)
    \/ \E r \in 1..Len(requests), settled \in Outcomes : Settled(r, settled)
    \/ ClearError
    \/ ClientAppears

SpecStore == InitStore /\ [][NextStore]_vars

-----------------------------------------------------------------------------
(* The store's init, lines 104-128, with the polling timer it sets when the*)
(* client is not there yet, and checkAuthStatus, lines 130-150.  A timer   *)
(* is a record with its count of checks and whether it is still set.       *)

\* the timers init may set
MaxInits == 2

\* line 123: the checks after which polling gives up
MaxChecks == 50

M_FailedToLoad == "Puter.js failed to load"

\* lines 130-133: checkAuthStatus as far as its first await
checkAuthStatus(st) ==
    /\ store' = [st EXCEPT !.isLoading = TRUE, !.error = <<>>]
    /\ requests' = Append(requests,
           [op |-> "checkAuthStatus", pc |-> "isSignedIn", outcome |-> Pending,
            value |-> Undefined])

\* lines 104-128: init
init ==
    /\ IF store.puterReady
       THEN UNCHANGED <<store, requests, intervals>>
       ELSE IF puter
       THEN /\ checkAuthStatus([store EXCEPT !.puterReady = TRUE])
            /\ UNCHANGED intervals
       ELSE /\ Len(intervals) < MaxInits
            /\ intervals' = Append(intervals, [checks |-> 0, active |-> TRUE])
            /\ UNCHANGED <<store, requests>>
    /\ UNCHANGED <<puter, otherThanStore>>

\* lines 116-127: the callback of timer i runs
Tick(i) ==
    /\ intervals[i].active
    /\ IF puter
       THEN /\ intervals' = [intervals EXCEPT ![i] =
                                [checks |-> @.checks + 1, active |-> FALSE]]
            /\ checkAuthStatus([store EXCEPT !.puterReady = TRUE])
       ELSE IF intervals[i].checks + 1 > MaxChecks
       THEN /\ intervals' = [intervals EXCEPT ![i] =
                                [checks |-> @.checks + 1, active |-> FALSE]]
            /\ store' = setError(store, M_FailedToLoad)
            /\ UNCHANGED requests
       ELSE /\ intervals' = [intervals EXCEPT ![i].checks = @ + 1]
            /\ UNCHANGED <<store, requests>>
    /\ UNCHANGED <<puter, otherThanStore>>

\* lines 133-147: auth.isSignedIn() settles in auth check r
SignedInSettled(r, settled) ==
    /\ requests[r].op = "checkAuthStatus"
    /\ requests[r].pc = "isSignedIn"
    /\ IF settled.kind # "value"
       THEN /\ store' = setError(store, MessageOf(settled))
            /\ requests' = [requests EXCEPT ![r] =
                   [@ EXCEPT !.pc = "done", !.outcome = settled, !.value = Bool(FALSE)]]
       ELSE IF settled.val = Bool(TRUE)
       THEN /\ requests' = [requests EXCEPT ![r].pc = "getUser"]
            /\ UNCHANGED store
       ELSE /\ store' = [store EXCEPT !.auth = [user |-> "", isAuthenticated |-> FALSE],
                                      !.isLoading = FALSE]
            /\ requests' = [requests EXCEPT ![r] =
                   [@ EXCEPT !.pc = "done", !.outcome = settled, !.value = Bool(FALSE)]]
    /\ UNCHANGED <<puter, intervals, otherThanStore>>

\* lines 135-140: auth.getUser() settles in auth check r
UserSettled(r, settled) ==
    /\ requests[r].op = "checkAuthStatus"
    /\ requests[r].pc = "getUser"
    /\ IF settled.kind # "value"
       THEN /\ store' = setError(store, MessageOf(settled))
            /\ requests' = [requests EXCEPT ![r] =
                   [@ EXCEPT !.pc = "done", !.outcome = settled, !.value = Bool(FALSE)]]
       ELSE /\ store' = [store EXCEPT !.auth = [user |-> "user", isAuthenticated |-> TRUE],
                                      !.isLoading = FALSE]
            /\ requests' = [requests EXCEPT ![r] =
                   [@ EXCEPT !.pc = "done", !.outcome = settled, !.value = Bool(TRUE)]]
    /\ UNCHANGED <<puter, intervals, otherThanStore>>

\* what auth.isSignedIn() and auth.getUser() may do
SignedInOutcomes == {Resolves(Bool(TRUE)), Resolves(Bool(FALSE)), Rejects(M_Network)}
UserOutcomes == {Resolves(Str(<<"u">>)), Rejects(M_Network)}

NextInit ==
    \/ init
    \/ \E i \in 1..Len(intervals) : Tick(i)
    \/ ClientAppears
    \/ \E r \in 1..Len(requests), settled \in SignedInOutcomes : SignedInSettled(r, settled)
    \/ \E r \in 1..Len(requests), settled \in UserOutcomes : UserSettled(r, settled)

SpecInit == InitStore /\ [][NextInit]_vars

-----------------------------------------------------------------------------
(* The claims. *)

Returned == pc = "done"
Valid(val) == validateFeedbackStructure(val) = "true"

\* the six scores of a record
Scores(val) ==
    <<Get(val, K_overallScore)>> \o
    [i \in 1..5 |-> Get(Get(val, sections[i]), K_score)]

\* C1: whatever the raw text and whichever method produced it, the returned
\* feedback is not null and passes validateFeedbackStructure, also when
\* success is false.
C1_FeedbackAlwaysValid ==
    Returned => result.feedback # Null /\ Valid(result.feedback)

C1_Witness ==
    /\ Returned /\ ~result.success /\ result.method = "fallback"
    /\ Valid(result.feedback)

\* C2: the stages are attempted in the order direct, regex_extraction,
\* repair; a stage is attempted only after every earlier one was rejected
\* by the validator; the method returned names the first accepted stage, and
\* is fallback when there is none; a result tagged repair means that the
\* direct and the extraction stage reject the same input.
StageOrder == <<"direct", "regex_extraction", "repair">>

C2_OrderedFallbackChain ==
    /\ Len(attempts) <= 3
    /\ \A i \in 1..Len(attempts) :
          /\ attempts[i].stage = StageOrder[i]
          /\ i < Len(attempts) => ~attempts[i].accepted
    /\ Returned =>
          result.method =
             IF attempts # <<>> /\ attempts[Len(attempts)].accepted
             THEN attempts[Len(attempts)].stage ELSE "fallback"
    /\ Returned /\ result.method = "repair" =>
          /\ ~TryParse(RemoveCodeBlock(trim(rawText))).ok
          /\ MatchObject(RemoveCodeBlock(trim(rawText))) # <<>>
          /\ ~TryParse(MatchObject(RemoveCodeBlock(trim(rawText)))[1]).ok

C2_Witness ==
    /\ Returned /\ result.method = "repair" /\ Len(attempts) = 3
    /\ ~attempts[1].accepted /\ ~attempts[2].accepted /\ attempts[3].accepted

\* C3: the serialization of a valid record, with optional white space
\* around it, is returned with success, method direct and a feedback equal
\* to the record.
C3_SerializedRecordParsesDirect ==
    Returned /\ input.family = "serialized" /\ Valid(input.rec) =>
        /\ result.success
        /\ result.method = "direct"
        /\ result.feedback = input.rec

C3_Witness ==
    /\ Returned /\ input.family = "serialized" /\ input.pre = "formfeed"
    /\ input.style.pretty
    /\ input.rec = SampleRecord(IntNum(82), S_quote, MaxTips)
    /\ result.method = "direct" /\ result.feedback = input.rec

\* C4: when no stage recovers a record the validator accepts, the result has
\* success false, method fallback, a non-empty error and a valid feedback
\* whose overallScore is 50; the feedback is never null, and before the return
\* every state has its next step (the repair stage has a match to work on).
C4_UnrecoverableGivesFallback ==
    /\ ~Returned =>
          /\ pc \in {"start", "direct", "extract", "repair", "fallback"}
          /\ pc = "repair" => jsonMatch # <<>>
    /\ Returned /\ (\A i \in 1..Len(attempts) : ~attempts[i].accepted) =>
        /\ ~result.success
        /\ result.method = "fallback"
        /\ result.error # ""
        /\ result.feedback # Null
        /\ Get(result.feedback, K_overallScore) = IntNum(50)
        /\ Valid(result.feedback)

C4_Witness ==
    /\ Returned /\ rawText = T_cannot /\ jsonMatch = <<>>
    /\ result.method = "fallback" /\ ~result.success
    /\ Get(result.feedback, K_overallScore) = IntNum(50)

\* C5 as stated: a valid record inside a fenced code block whose opening
\* fence carries any language tag is returned with success and method
\* direct.
HasLanguageTag(in) ==
    in.pre \in {"fence_json", "fence_json_tight", "fence_javascript", "fence_JSON"}

C5_AnyTagParsesDirect ==
    Returned /\ input.family = "fenced" /\ HasLanguageTag(input) =>
        result.success /\ result.method = "direct"

\* C5 as amended: a valid record inside a fenced code block whose opening
\* fence carries the language tag json is returned with success, method
\* direct and a feedback equal to the record.
C5_JsonTagParsesDirect ==
    Returned /\ input.family = "fenced"
             /\ input.pre \in {"fence_json", "fence_json_tight"} =>
        /\ result.success
        /\ result.method = "direct"
        /\ result.feedback = input.rec

C5_Witness ==
    /\ Returned /\ input.family = "fenced" /\ input.pre = "fence_json"
    /\ input.post = "fence" /\ input.style.pretty
    /\ result.success /\ result.method = "direct"

\* C6 as stated: a valid record with prose before and/or after it, braces
\* in the prose included, is returned with success, method regex_extraction
\* or repair, and a feedback equal to the record.
C6_AnyProseExtracted ==
    Returned /\ input.family = "prose" =>
        /\ result.success
        /\ result.method \in {"regex_extraction", "repair"}
        /\ result.feedback = input.rec

\* C6 as amended: the same for prose that holds neither an opening nor a
\* closing brace.
C6_BraceFreeProseExtracted ==
    Returned /\ input.family = "prose"
             /\ input.pre # "brace" /\ input.post # "brace" =>
        /\ result.success
        /\ result.method \in {"regex_extraction", "repair"}
        /\ result.feedback = input.rec

C6_Witness ==
    /\ Returned /\ input.family = "prose"
    /\ input.pre = "prose" /\ input.post = "prose"
    /\ result.success /\ result.method = "regex_extraction"
    /\ result.feedback = input.rec

\* C7: a valid record written with a trailing comma before a closing brace
\* is returned with success, method repair and the record it denotes,
\* whatever its strings hold and whether or not it is pretty-printed.
HasTrailingComma(in) ==
    /\ in.family = "comma"
    /\ Body(in) # Stringify(in.rec, [in.style EXCEPT !.comma = -1], 0)

C7_TrailingCommaRepaired ==
    Returned /\ HasTrailingComma(input) =>
        /\ result.success
        /\ result.method = "repair"
        /\ result.feedback = input.rec

\* C8: on every value validateFeedbackStructure returns true or false,
\* never throws, and returns the same when called again.
C8_ValidatorTotal ==
    \A i \in 1..Len(outcome) :
        outcome[i] \in {"true", "false"} /\ outcome[i] = outcome[1]

C8_Witness == obj = Null /\ outcome = <<"false", "false">>

\* the FeedbackRecord invariant, as the data model states it
IsTip(val, isATS) ==
    /\ val.t = "obj"
    /\ Get(val, K_type) \in {Str(T_good), Str(T_improve)}
    /\ Get(val, K_tip).t = "str"
    /\ isATS \/ Get(val, K_explanation).t = "str"

IsSection(val, isATS) ==
    /\ val.t = "obj"
    /\ Get(val, K_score).t = "num"
    /\ Get(val, K_tips).t = "arr"
    /\ \A k \in 1..Len(Get(val, K_tips).v) : IsTip(Get(val, K_tips).v[k], isATS)

IsFeedbackRecord(val) ==
    /\ val.t = "obj"
    /\ Get(val, K_overallScore).t = "num"
    /\ \A i \in 1..5 : IsSection(Get(val, sections[i]), sections[i] = K_ATS)

\* C9: validateFeedbackStructure returns true exactly on the values that
\* satisfy the FeedbackRecord invariant: six numeric scores, five sections
\* with an array of tips, every tip of kind good or improve with a string
\* tip, and a string explanation on every tip outside ATS.
C9_ValidatorDecidesInvariant ==
    outcome # <<>> => (outcome[1] = "true" <=> IsFeedbackRecord(obj))

C9_Witness ==
    /\ outcome = <<"true", "true">>
    /\ Get(Get(obj, K_ATS), K_tips).v # <<>>
    /\ Get(Get(Get(obj, K_ATS), K_tips).v[1], K_explanation) = Undefined

\* C10 as stated: every returned record has six scores that are integers
\* within 0..100.
InRange(val) == val.t = "num" /\ val.v[2] = 0 /\ val.v[1] \in 0..100

C10_ScoresWithinRange ==
    Returned => \A i \in 1..6 : InRange(Scores(result.feedback)[i])

\* C10 as amended: every returned record has six scores that are numbers;
\* a record taken from a response that is one record keeps the scores of
\* the response whatever they are, and the fallback record has 50 six times.
C10_ScoresAreNumbers ==
    Returned =>
        /\ \A i \in 1..6 : TypeOf(Scores(result.feedback)[i]) = "number"
        /\ result.success /\ TypeOf(input.rec) = "object" /\ ~IsArray(input.rec) =>
              Scores(result.feedback) = Scores(input.rec)
        /\ ~result.success => \A i \in 1..6 : Scores(result.feedback)[i] = IntNum(50)

C10_Witness ==
    /\ Returned /\ result.success
    /\ Get(result.feedback, K_overallScore) = IntNum(150)

\* C11: validating a valid record again yields true again, and the
\* serialized fallback record of any message is returned by parseAIFeedback
\* with method direct and a feedback equal to that fallback record (which
\* the validator accepts once more).
C11_FallbackRoundTrip ==
    Returned /\ input.family = "fallback" =>
        /\ result.success
        /\ result.method = "direct"
        /\ \E m \in Messages : result.feedback = createFallbackFeedback(m)
        /\ result.feedback = input.rec
        /\ Valid(input.rec) /\ Valid(result.feedback)

C11_Witness ==
    /\ Returned /\ input.family = "fallback" /\ input.style.pretty
    /\ input.rec = createFallbackFeedback(<<"\"", "\n">>)
    /\ result.method = "direct" /\ result.feedback = input.rec

\* s holds sub as a run of consecutive characters
Contains(s, sub) ==
    \E k \in 0..(Len(s) - Len(sub)) : SubSeq(s, k + 1, k + Len(sub)) = sub

\* the one tip of a section of the fallback record
OnlyTip(val, section) == Get(Get(val, section), K_tips).v[1]

\* C12: for every diagnostic message the fallback record has overallScore
\* 50 and 50 in each section; ATS holds one improve tip with the generic
\* retry message and no explanation; each other section holds one improve
\* tip 'Manual review needed' whose explanation contains the message.
C12_FallbackShape ==
    pc = "created" =>
        /\ \A i \in 1..6 : Scores(obj)[i] = IntNum(50)
        /\ \A i \in 1..5 :
              /\ Len(Get(Get(obj, sections[i]), K_tips).v) = 1
              /\ Get(OnlyTip(obj, sections[i]), K_type) = Str(T_improve)
        /\ Get(OnlyTip(obj, K_ATS), K_tip) = Str(M_UploadFailed)
        /\ Get(OnlyTip(obj, K_ATS), K_explanation) = Undefined
        /\ \A i \in 2..5 :
              /\ Get(OnlyTip(obj, sections[i]), K_tip) = Str(M_ManualReview)
              /\ TypeOf(Get(OnlyTip(obj, sections[i]), K_explanation)) = "string"
              /\ Contains(Get(OnlyTip(obj, sections[i]), K_explanation).v,
                          ErrorMessage(message))

C12_Witness ==
    /\ pc = "created" /\ message = Str(<<"}", ",">>)
    /\ Get(OnlyTip(obj, K_skills), K_explanation) = Str(<<"}", ",">> \o M_PleaseRetry)

\* the states of the review page: ready is loading off, no reason, both
\* references set; error is loading off and a reason
Ready ==
    /\ mounted = "mounted" /\ ~loading /\ error = <<>>
    /\ resumeUrl # <<>> /\ imageUrl # <<>>

InError == mounted = "mounted" /\ ~loading /\ error # <<>>

\* load k returns in this step
Returns(k) ==
    /\ k <= Len(loads) /\ k <= Len(loads')
    /\ loads[k].pc # "done" /\ loads'[k].pc = "done"

\* C13: a feedback that the ready page carries from the stored record
\* passes validateFeedbackStructure.
C13_SurfacedFeedbackValid ==
    Ready /\ feedback # Null => Valid(feedback)

\* C14: every invocation of loadResume starts in the loading state; if the
\* store calls resolve it returns, and when it returns the page is in error
\* (loading off, reason set) or ready (loading off, no reason, both
\* references set); an invocation that has returned changes nothing more.
C14_LoadingThenTerminal ==
    /\ [][Len(loads') = Len(loads) + 1 =>
             /\ loading' /\ error' = <<>>
             /\ loads'[Len(loads')].pc = "kv.get"]_vars
    /\ \A k \in 1..MaxLoads :
          [](Len(loads) >= k => <>(Len(loads) < k \/ loads[k].pc = "done"))
    /\ [][\A k \in 1..MaxLoads :
             Returns(k) /\ mounted = "mounted" => (InError \/ Ready)']_vars
    /\ [][\A k \in 1..Len(loads) :
             loads[k].pc = "done" /\ Len(loads') >= k => loads'[k] = loads[k]]_vars
    /\ [][/\ loads # <<>>
          /\ \A k \in 1..Len(loads) : loads[k].pc = "done"
          /\ Len(loads') = Len(loads)
          => UNCHANGED <<loading, error, resumeUrl, imageUrl, feedback>>]_vars

C14_Witness ==
    /\ Ready /\ Len(loads) = 1 /\ loads[1].pc = "done"
    /\ feedback = FeedbackOf(id)

\* why the load for identifier i fails, in the order the code tests:
\* "none", "syntax", "null", "paths", "document", "image", or "" if it does not
CauseOf(i) ==
    LET resume == kv[KeyOf(i)]
        data == records[KeyOf(i)]
    IN  IF Falsy(resume) THEN "none"
        ELSE IF ~data.ok THEN "syntax"
        ELSE IF ~HasProps(data.val) THEN "null"
        ELSE IF Falsy(Get(data.val, K_resumePath)) \/ Falsy(Get(data.val, K_imagePath))
             THEN "paths"
        ELSE IF Falsy(FsRead(Get(data.val, K_resumePath))) THEN "document"
        ELSE IF Falsy(FsRead(Get(data.val, K_imagePath))) THEN "image"
        ELSE ""

ReasonOf(cause) ==
    CASE cause = "none" -> <<"Resume not found">>
      [] cause = "syntax" -> <<"Invalid resume data">>
      [] cause = "paths" -> <<"Resume files missing">>
      [] cause = "document" -> <<"Failed to load resume file">>
      [] cause = "image" -> <<"Failed to load resume image">>
      [] OTHER -> <<>>

\* the blob reads a load has issued when it fails for the cause
ReadsOf(cause) ==
    CASE cause \in {"none", "syntax", "null", "paths"} -> 0
      [] cause = "document" -> 1
      [] OTHER -> 2

\* C15: a load whose record is missing, does not deserialize, lacks a path,
\* or whose document or image blob cannot be read, returns with the reason
\* of the first of these causes, the page in error and not ready, and
\* without having performed any later step (the image is not read when the
\* document could not be).  (A stored text that is the JSON null is no
\* record at all: its load ends in error too, by the catch of line 96.)
C15_SpecificReasonInOrder ==
    /\ [](\A k \in 1..Len(loads) : Len(loads[k].reads) <= ReadsOf(CauseOf(loads[k].id)))
    /\ [][\A k \in 1..MaxLoads :
             /\ Returns(k) /\ mounted = "mounted"
             /\ CauseOf(loads[k].id) # ""
             => /\ CauseOf(loads[k].id) # "null" =>
                      error' = ReasonOf(CauseOf(loads[k].id))
                /\ InError' /\ ~Ready'
                /\ Len(loads'[k].reads) = ReadsOf(CauseOf(loads[k].id))]_vars

C15_Witness ==
    /\ InError /\ Len(loads) = 1 /\ loads[1].pc = "done"
    /\ CauseOf(id) = "document"
    /\ kv[KeyOf(id)] =
          Str(JSONStringify(Analysis(DocPath(id, FALSE), ImgPath(id, FALSE), <<>>)))
    /\ error = <<"Failed to load resume file">>
    /\ loads[1].reads = <<Str(DocPath(id, FALSE))>>

\* C16: when the store has no entry under resume:<id>, the load returns
\* with the page in error for 'Resume not found', and it never calls
\* fs.read.
C16_NotFoundReadsNothing ==
    /\ [](\A k \in 1..Len(loads) :
             kv[KeyOf(loads[k].id)] = Null =>
                 loads[k].reads = <<>> /\ loads[k].gets = 1)
    /\ [][\A k \in 1..MaxLoads :
             Returns(k) /\ mounted = "mounted" /\ kv[KeyOf(loads[k].id)] = Null
             => InError' /\ error' = <<"Resume not found">>]_vars

C16_Witness ==
    /\ InError /\ Len(loads) = 1 /\ loads[1].pc = "done"
    /\ kv[KeyOf(id)] = Null
    /\ error = <<"Resume not found">> /\ loads[1].reads = <<>>

\* the page carries something of identifier i: its feedback or a reference
\* to one of its blobs
Carries(i) ==
    \/ feedback = FeedbackOf(i)
    \/ resumeUrl = CreateObjectURL(Str(DocPath(i, TRUE)))
    \/ imageUrl = CreateObjectURL(Str(ImgPath(i, TRUE)))

\* every load of the page began after the ones before it had returned
OneAtATime == \A k \in 1..Len(loads) : loads[k].alone

AllReturned == \A k \in 1..Len(loads) : loads[k].pc = "done"

\* C17: after the identifier changed from A to B (A's load having
\* returned), the state B's load ends in carries no feedback and no
\* preview of A.
C17_NothingCarriedOver ==
    /\ mounted = "mounted" /\ Len(loads) = 2 /\ OneAtATime /\ AllReturned
    /\ loads[2].id = id
    => ~Carries(loads[1].id)

\* the feedback of the record stored for identifier i, null if it has none
StoredFeedback(i) ==
    IF Falsy(Get(records[KeyOf(i)].val, K_feedback)) THEN Null
    ELSE Get(records[KeyOf(i)].val, K_feedback)

\* C18: when the record has both paths and both blobs are read, the load
\* ends with the page ready, never in error; the page carries the record's
\* feedback if it has one, and otherwise none, showing 'Processing...'.
C18_ReadyWithOrWithoutFeedback ==
    /\ mounted = "mounted" /\ loads # <<>> /\ OneAtATime /\ AllReturned
    /\ loads[Len(loads)].id = id
    /\ CauseOf(id) = ""
    => /\ Ready
       /\ feedback = StoredFeedback(id)
       /\ StoredFeedback(id) = Null => View = "processing"

\* C19: an invocation issues kv.get once and at most the two blob reads,
\* the document's and then the image's; once it has returned it issues no
\* further call; and a new invocation begins only when the page is mounted
\* or the identifier changes.
C19_NoRetry ==
    /\ [](\A k \in 1..Len(loads) :
             /\ loads[k].gets = 1
             /\ Len(loads[k].reads) <= 2
             /\ Len(loads[k].reads) >= 1 =>
                   loads[k].reads[1] = Get(loads[k].data, K_resumePath)
             /\ Len(loads[k].reads) = 2 =>
                   loads[k].reads[2] = Get(loads[k].data, K_imagePath))
    /\ [][\A k \in 1..Len(loads) :
             loads[k].pc = "done" /\ Len(loads') >= k =>
                 /\ loads'[k].gets = loads[k].gets
                 /\ loads'[k].reads = loads[k].reads
                 /\ loads'[k].pc = "done"]_vars
    /\ [][Len(loads') > Len(loads) => id' # id \/ mounted' # mounted]_vars

C19_Witness ==
    /\ InError /\ Len(loads) = 1 /\ loads[1].pc = "done"
    /\ CauseOf(id) = "image"
    /\ loads[1].gets = 1 /\ Len(loads[1].reads) = 2

\* C20: when an abandoned load resumes (a later load has begun, or the
\* page is unmounted), the loading flag, the reason, the references and
\* the feedback stay as they are.
C20_AbandonedLoadIgnored ==
    [][\A k \in 1..Len(loads) :
          /\ Len(loads') = Len(loads)
          /\ loads'[k] # loads[k]
          /\ k < Len(loads) \/ mounted # "mounted"
          => UNCHANGED <<loading, error, resumeUrl, imageUrl, feedback>>]_vars

\* a call of convertPdfToImage begins in this step
Called == Len(calls') = Len(calls) + 1

\* the call that begins in this step reaches loadPdfJs
Loads == Called /\ calls'[Len(calls')].pc = "loadPdfJs"

\* the call that begins in this step starts an import of the engine
Imports == Len(imports') = Len(imports) + 1

\* some import is in flight
InFlight == \E n \in 1..Len(imports) : imports[n] = "pending"

\* C21: an import of the engine is started only while none is in flight
\* and none has succeeded; a call that arrives while one is in flight waits
\* for that one; and all calls that get an engine get the same instance.
C21_InitAtMostOnce ==
    /\ [][Imports => pdfjsLib = 0 /\ \A n \in 1..Len(imports) : imports[n] = "rejected"]_vars
    /\ [][Loads /\ InFlight =>
            /\ ~Imports
            /\ imports[calls'[Len(calls')].awaits] = "pending"]_vars
    /\ [](\A c, d \in 1..Len(calls) :
             calls[c].lib # 0 /\ calls[d].lib # 0 =>
                 calls[c].lib = calls[d].lib /\ calls[c].lib = pdfjsLib)

C21_Witness ==
    /\ Len(calls) = 2 /\ Len(imports) = 1
    /\ calls[1].awaits = 1 /\ calls[2].awaits = 1
    /\ calls[1].lib = 1 /\ calls[2].lib = 1

\* the three fields of an error result
IsErrorResult(res) == res.error # <<>> /\ res.imageUrl = <<>> /\ res.file = Null

\* C22: the promise of convertPdfToImage never rejects; a call that leaves
\* any await but the last returns an error result (non-empty error, no
\* image reference, no file), so does a call that returns at once, and the
\* callback of toBlob resolves it with an error result or with an image.
C22_NeverRejects ==
    /\ [](\A c \in 1..Len(calls) :
             /\ calls[c].pc # "rejected"
             /\ calls[c].pc = "done" =>
                   \/ IsErrorResult(calls[c].result)
                   \/ /\ calls[c].result.error = <<>>
                      /\ calls[c].result.imageUrl # <<>>
                      /\ calls[c].result.file # Null)
    /\ [][\A c \in 1..Len(calls') :
             /\ calls'[c].pc = "done"
             /\ c <= Len(calls) => calls[c].pc \notin {"done", "toBlob"}
             => IsErrorResult(calls'[c].result)]_vars

C22_Witness ==
    /\ Len(calls) = 2
    /\ calls[1].pc = "done" /\ calls[2].pc = "done"
    /\ calls[1].awaits = 1 /\ imports[1] = "rejected"
    /\ calls[1].result.error = <<"Failed to convert PDF: PDF.js loading failed: import failed">>
    /\ calls[2].result.error = <<"Failed to create image blob">>

\* the call was refused at once: it has returned an error result and has
\* neither waited for an engine nor got one
Refused(c) ==
    /\ calls[c].pc = "done"
    /\ IsErrorResult(calls[c].result)
    /\ calls[c].awaits = 0 /\ calls[c].lib = 0

\* C23 as stated: a call without a file, or with a file whose type or whose
\* name does not say PDF, is refused at once.
C23_RefusedIfEitherMismatches ==
    \A c \in 1..Len(calls) :
        \/ calls[c].file = Null
        \/ ~includes(calls[c].file.type, T_pdf)
        \/ ~endsWith(toLowerCase(calls[c].file.name), T_dotPdf)
        => Refused(c)

\* the file is absent, or neither its type nor its name says PDF
BadInput(file) ==
    \/ file = Null
    \/ /\ ~includes(file.type, T_pdf)
       /\ ~endsWith(toLowerCase(file.name), T_dotPdf)

\* C23, amended: a call without a file, or with a file of which neither the
\* type contains 'pdf' nor the name ends in '.pdf', is refused at once, and
\* the step in which it is made starts no import and leaves the engine as
\* it is.
C23_RefusedIfNeitherMatches ==
    /\ [](\A c \in 1..Len(calls) : BadInput(calls[c].file) => Refused(c))
    /\ [][Called /\ BadInput(calls'[Len(calls')].file) =>
            UNCHANGED <<pdfjsLib, isLoading, loadPromise, imports>>]_vars

C23_Witness ==
    /\ Len(calls) = 2
    /\ calls[1].file = Null /\ calls[1].result.error = <<"No file provided">>
    /\ calls[2].file = MkFile(<<"a",".","t","x","t">>, T_textPlain)
    /\ calls[2].browser
    /\ calls[2].result.error = <<"File must be a PDF">>
    /\ imports = <<>>

\* C24: when the kv.get or a blob read of the page's load failed in the
\* service, the reason the page ends with conveys the service's message:
\* it is that message, or the 'Failed to load resume: ' form of it.
C24_CauseConveyed ==
    /\ mounted = "mounted" /\ Len(loads) = 1 /\ AllReturned
    /\ store.error # <<>>
    => /\ error # <<>>
       /\ error[1] \in {store.error[1], "Failed to load resume: " \o store.error[1]}

\* request r returns in this step
Answers(r) ==
    /\ r <= Len(requests')
    /\ requests'[r].pc = "done"
    /\ r <= Len(requests) => requests[r].pc = "await"

\* C25: a request of any fs, kv or ai operation never rejects; made
\* without the client, or rejected by the client, it resolves to
\* undefined, the store's error becomes the failure message (the Error's
\* message, or the generic one for a rejection that is no Error) and
\* isLoading becomes false; resolved by the client, it returns the value
\* and leaves the store as it is.
C25_SentinelNotThrow ==
    /\ [](\A r \in 1..Len(requests) :
             /\ requests[r].pc \in {"await", "done"}
             /\ requests[r].op \in Operations)
    /\ [][\A r \in 1..MaxRequests : Answers(r) =>
            LET req == requests'[r] IN
            CASE req.outcome.kind = "value" ->
                     req.value = req.outcome.val /\ store' = store
              [] req.outcome.kind = "none" ->
                     /\ req.value = Undefined
                     /\ store'.error = <<M_NotAvailable>>
                     /\ ~store'.isLoading
              [] req.outcome.kind = "Error" ->
                     /\ req.value = Undefined
                     /\ store'.error = <<req.outcome.message>>
                     /\ ~store'.isLoading
              [] OTHER ->
                     /\ req.value = Undefined
                     /\ store'.error = <<M_UnknownApi>>
                     /\ ~store'.isLoading]_vars

C25_Witness ==
    /\ Len(requests) = 2
    /\ requests[1].pc = "done" /\ requests[1].outcome = Resolves(Str(<<"v">>))
    /\ requests[1].value = Str(<<"v">>)
    /\ requests[2].pc = "done" /\ requests[2].outcome = Rejects(M_Network)
    /\ requests[2].op = "fs.read"
    /\ requests[2].value = Undefined
    /\ store.error = <<M_Network>> /\ ~store.isLoading

\* C26: no step of the page (mounting, a change of identifier, a load
\* going on or returning, ready or in error) changes the key-value store
\* or the file store, and the store calls a load has issued are kv.get of
\* its key, once, and fs.read of the paths of its record.
C26_LoadReadsOnly ==
    /\ [][kv' = kv /\ files' = files]_vars
    /\ [](\A k \in 1..Len(loads) :
             /\ loads[k].gets = 1
             /\ \A j \in 1..Len(loads[k].reads) :
                   loads[k].reads[j] \in {Get(loads[k].data, K_resumePath),
                                          Get(loads[k].data, K_imagePath)})

C26_Witness ==
    /\ Len(loads) = 2 /\ AllReturned
    /\ loads[1].reads = <<>>
    /\ Len(loads[2].reads) = 2
    /\ Ready
    /\ files = Files
    /\ kv[KeyOf(id)] = Str(JSONStringify(Analysis(DocPath(id, TRUE), ImgPath(id, TRUE),
                                                  << <<K_feedback, FeedbackOf(id)>> >>)))

\* the import call c waited for was rejected
SharedFailure(c) == calls[c].awaits # 0 /\ imports[calls[c].awaits] = "rejected"

\* some import has succeeded
Succeeded == \E n \in 1..Len(imports) : imports[n] = "fulfilled"

\* C27: a call that waited for an import that was rejected gets no engine
\* and returns the error result of the failed load; the rejected import is
\* not kept in loadPromise, and the next call that reaches loadPdfJs with
\* no engine there and no import in flight starts a new one and waits for
\* it; once an import has succeeded none is started.
C27_FailureNotMemoized ==
    /\ [](\A c \in 1..Len(calls) : SharedFailure(c) =>
             /\ calls[c].lib = 0
             /\ calls[c].pc \in {"loadPdfJs", "done"}
             /\ calls[c].pc = "done" =>
                   calls[c].result =
                       NotConverted("Failed to convert PDF: PDF.js loading failed: import failed"))
    /\ [](loadPromise # 0 => imports[loadPromise] # "rejected")
    /\ [][Loads /\ pdfjsLib = 0 /\ ~InFlight =>
            /\ Imports
            /\ calls'[Len(calls')].awaits = Len(imports')
            /\ imports'[Len(imports')] = "pending"
            /\ loadPromise' = Len(imports')]_vars
    /\ [][Succeeded => ~Imports]_vars

C27_Witness ==
    /\ Len(calls) = 2 /\ Len(imports) = 2
    /\ calls[1].awaits = 1 /\ imports[1] = "rejected"
    /\ calls[1].pc = "done" /\ calls[1].result.error # <<>>
    /\ calls[2].awaits = 2 /\ imports[2] = "fulfilled"
    /\ calls[2].lib = 2 /\ pdfjsLib = 2

\* the auth checks started so far
AuthChecks == {r \in 1..Len(requests) : requests[r].op = "checkAuthStatus"}

\* C28: once the store is ready, initialization has started the auth
\* status check exactly once; until then, never.
C28_AuthCheckedOnce ==
    Cardinality(AuthChecks) = IF store.puterReady THEN 1 ELSE 0

=============================================================================
